---- MODULE Spec2Model ----
(***************************************************************************)
(* temporal-lens client runtime: the shared-memory payload queue with its  *)
(* spin lock (shmem.rs), the lazy rate-limited attachment to the shared    *)
(* region (core.rs) and the zone life cycle (lib.rs).                      *)
(*                                                                         *)
(* Producer threads run Zone::new, Zone::drop and preinit; Zone::drop and  *)
(* preinit call get_shmem_data_and_start_time, and Zone::drop then calls   *)
(* Payload::push on zone_data.  The collector (server process) creates the *)
(* region and drains zone_data with Payload::retrieve.  Every shared       *)
(* memory access of the code is one step of the thread that makes it.      *)
(***************************************************************************)
EXTENDS Integers, Sequences, FiniteSets, TLC

(* ------------------------------ bounds --------------------------------- *)
\* Capacity of a payload; shmem.rs:18 sets 256, the model scales it down.
NUM_ENTRIES ==
    2
\* Seconds between two open attempts; core.rs:55 sets 10, scaled down.
RETRY_SECS ==
    1
\* Clock resolution: ticks of the monotonic clock per second.
TicksPerSec ==
    2
\* Last clock value the model explores, in ticks.
MaxTime ==
    5
\* Zones ever entered.
MaxZones ==
    2
\* Entries test_shmem ever pushes, over all threads that run it.
MaxPushes ==
    3
\* Zones simultaneously live on one thread.
MaxDepth ==
    2
\* Shared-memory files ever created at the well-known path.
MaxRegions ==
    2
\* Capacity of a SharedString in bytes; shmem.rs:20 sets 128, scaled down.
SHARED_STRING_MAX_SIZE ==
    2
\* Calls of frame_delimiter! ever made.
MaxFrames ==
    3
\* Allocations and deallocations the heap tracker ever reports.
MaxReports ==
    3

MaxDrains ==
    1

(* ------------------------- program constants --------------------------- *)
MAGIC ==
    499408625
PROTOCOL_VERSION ==
    65540
\* size_of::<usize>() of the client build (x86_64).
SIZE_OF_USIZE ==
    8
\* Last iteration of SpinLock::lock that busy-waits.
SPIN_BUSY_LAST ==
    3
\* Last iteration of SpinLock::lock that emits spin_loop_hint.
SPIN_PAUSE_LAST ==
    15

\* Header values a file at the path may hold: the client's own and a foreign
\* magic, the previous protocol version, a 32-bit build.
Magics ==
    {MAGIC, MAGIC + 1}
Versions ==
    {PROTOCOL_VERSION, PROTOCOL_VERSION - 1}
Widths ==
    {SIZE_OF_USIZE, SIZE_OF_USIZE \div 2}

Threads ==
    {"t1", "t2"}
Sites ==
    {"s1", "s2"}
Collector ==
    "collector"

\* Option<T>, MaybeUninit<T>: the empty set is None (uninit), {x} is Some(x).
None ==
    {}
Some(x) ==
    {x}
Unwrap(o) ==
    CHOOSE x \in o : TRUE

\* No thread, no call site, no path taken.
Nobody ==
    "none"

VARIABLES
    now,          \* the monotonic clock (Instant::now), in ticks
    shm,          \* the shared-memory file: None or its header and identity
    nregions,     \* files created so far
    lock,         \* zone_data.lock
    size,         \* zone_data.size
    data,         \* zone_data.data
    core_init,    \* CORE_INITIALIZER has run
    ready,        \* CORE.ready
    mem,          \* CORE.mem: None (uninit) or the id of the mapped region
    last_check,   \* CORE.last_check: None or an instant
    mutex,        \* owner of the last_check mutex, or None
    start_time,   \* CORE.start_time
    thread_info,  \* THREAD_INFO of every thread
    copy_name,    \* ZoneInfo.copy_name of every call site
    zones,        \* the live Zone values of every thread
    nzones,       \* ZoneData values produced so far (zones, test entries)
    already_sent, \* already_sent of test_shmem, per thread that runs it
    pc,           \* position of every thread
    frame,        \* locals of the operation a thread runs
    spin,         \* the counter i of SpinLock::lock, per thread and collector
    cpc,          \* position of the collector
    dst,          \* destination buffer of the last retrieve
    drained,      \* (retrieved, lost) of the last retrieve
    frame_time,   \* __TL_FRAME_TIME of the frame_delimiter! call site
    frame_num,    \* __TL_FRAME_NUM of the frame_delimiter! call site
    frame_data,   \* the payload frame_data: lock, size and data
    total_size,   \* TOTAL_SIZE of the heap tracker
    plot_data,    \* the payload plot_data: lock, size and data
    string,       \* a SharedString that set, set_special and make_str work on
    arg,          \* the argument of the last set or set_special on it
    made,         \* what the last make_str on it returned
    panicked,     \* the last set or set_special failed its assertion
    hist          \* history, read by the properties only: the zones that won
                  \* the lock and the pushes completed since the last drain
                  \* (and at it), the instant of the last failed open, the
                  \* open calls, the first region handed out, the instant
                  \* the server created its region, the zones dropped
                  \* unattached, the live zones at each zone's entry, the
                  \* ZoneData the zones have stored (in the order stored,
                  \* drained or not), the zones entered when a thread's
                  \* name_sent was set, the instants of the frame_delimiter!
                  \* calls, the FrameData stored, the heap reports begun,
                  \* and those that found the region and that did not, what
                  \* the retrieve before the last returned, the retrieves
                  \* of a collector that makes finitely many

vars ==
    <<now, shm, nregions, lock, size, data, core_init, ready, mem, last_check,
      mutex, start_time, thread_info, copy_name, zones, nzones, already_sent,
      pc, frame,
      spin, cpc, dst, drained, frame_time, frame_num, frame_data, total_size,
      plot_data, string, arg, made, panicked, hist>>

regionVars ==
    <<shm, nregions>>
payloadVars ==
    <<lock, size, data>>
coreVars ==
    <<core_init, ready, mem, last_check, mutex, start_time>>
zoneVars ==
    <<thread_info, copy_name, zones, nzones, already_sent>>
collectorVars ==
    <<cpc, dst, drained>>
facadeVars ==
    <<frame_time, frame_num, frame_data, total_size, plot_data>>
stringVars ==
    <<string, arg, made, panicked>>

(* ------------------------------ shmem.rs ------------------------------- *)
\* An entry of zone_data.data never written: the region is zeroed at creation.
ZeroEntry ==
    [zid |-> 0, uid |-> Nobody, end |-> 0, duration |-> 0, depth |-> 0,
     name_has |-> FALSE, thread |-> Nobody, thread_has |-> FALSE]

\* A SharedString of the zeroed region.
ZeroString ==
    [key |-> 0, size |-> 0, has_contents |-> FALSE,
     contents |-> [i \in 0..(SHARED_STRING_MAX_SIZE - 1) |-> 0]]

\* An entry of frame_data.data never written.
ZeroFrame ==
    [number |-> 0, end |-> 0, duration |-> 0]

\* An entry of plot_data.data never written.
ZeroPlot ==
    [time |-> 0, value |-> 0, name |-> ZeroString]

\* A payload as SharedMemoryData::init leaves it in the zeroed region.
InitPayload(zero) ==
    [lock |-> FALSE, size |-> 0,
     data |-> [i \in 0..(NUM_ENTRIES - 1) |-> zero]]

\* SpinLock::lock, the hint an iteration that lost the swap executes.
Backoff(i) ==
    IF i <= SPIN_BUSY_LAST THEN "busy"
    ELSE IF i <= SPIN_PAUSE_LAST THEN "pause"
    ELSE "yield"

\* SpinLock::lock, i += 1; every i past SPIN_PAUSE_LAST yields alike, so the
\* counter is kept up to the first yielding value.
NextSpin(i) ==
    IF Backoff(i) = "yield" THEN i ELSE i + 1

\* Faulty variant of HasRoom: the bound is off by one.
HasRoom_OffByOne(sz) ==
    sz <= NUM_ENTRIES

\* Payload::push, the test that decides whether the entry is stored.
HasRoom(sz) ==
    sz < NUM_ENTRIES

(* ----------------------- shmem.rs: SharedString ------------------------ *)
\* The addresses of the static strings, and the keys a caller of set_special
\* supplies.
Addrs ==
    {1, 2}

\* The values of a byte of a string; 0 is the byte of the zeroed region.
Bytes ==
    {1, 2}

\* The byte strings of length n.
BytesOfLen(n) ==
    [1..n -> Bytes]

\* The &'static str values handed to set: an address and the bytes there, of
\* every length up to one past the capacity.
StaticStrs ==
    [addr : Addrs,
     bytes : UNION {BytesOfLen(n) : n \in 0..(SHARED_STRING_MAX_SIZE + 1)}]

\* The values a SharedString in a data slot may hold before a call: whatever
\* an earlier entry left there.
SharedStrings ==
    [key : {0} \cup Addrs, size : 0..SHARED_STRING_MAX_SIZE,
     has_contents : BOOLEAN,
     contents : [0..(SHARED_STRING_MAX_SIZE - 1) -> {0} \cup Bytes]]

\* x as u8.
AsU8(x) ==
    x % 256

\* Faulty variant of Fits: a string of exactly the capacity is refused.
Fits_Strict(len) ==
    len < SHARED_STRING_MAX_SIZE

\* assert!(raw.len() <= SHARED_STRING_MAX_SIZE).
Fits(len) ==
    len <= SHARED_STRING_MAX_SIZE

\* std::ptr::copy_nonoverlapping(raw, self.contents.as_mut_ptr(), n).
CopyNonoverlapping(raw, contents, n) ==
    [i \in DOMAIN contents |-> IF i < n THEN raw[i + 1] ELSE contents[i]]

\* SharedString::set past its assertion: the string as the call leaves it.
set(self, str, copy_contents) ==
    IF copy_contents
    THEN [key |-> str.addr, size |-> AsU8(Len(str.bytes)),
          has_contents |-> TRUE,
          contents |-> CopyNonoverlapping(str.bytes, self.contents,
                                          Len(str.bytes))]
    ELSE [self EXCEPT !.key = str.addr, !.has_contents = FALSE]

\* SharedString::set_special past its assertion; contents is None or
\* Some(bytes), the bytes at raw, sz of them.
set_special(self, key, contents) ==
    IF contents # None
    THEN [key |-> key, size |-> AsU8(Len(Unwrap(contents))),
          has_contents |-> TRUE,
          contents |-> CopyNonoverlapping(Unwrap(contents), self.contents,
                                          Len(Unwrap(contents)))]
    ELSE [self EXCEPT !.key = key, !.has_contents = FALSE]

\* Faulty variant of make_str: the whole of contents is decoded.
make_str_Whole(self) ==
    IF self.has_contents
    THEN Some([i \in 1..SHARED_STRING_MAX_SIZE |-> self.contents[i - 1]])
    ELSE None

\* SharedString::make_str: &self.contents[0..self.size].
make_str(self) ==
    IF self.has_contents
    THEN Some([i \in 1..self.size |-> self.contents[i - 1]])
    ELSE None

\* A call of string.set(str, copy_contents): the assertion comes first, and
\* a failed one leaves the string as it was.
CallSet(str, copy_contents) ==
    /\ arg' = Some([op |-> "set", key |-> str.addr, bytes |-> Some(str.bytes),
                    copy |-> copy_contents])
    /\ made' = None
    /\ IF Fits(Len(str.bytes))
       THEN /\ string' = set(string, str, copy_contents)
            /\ panicked' = FALSE
       ELSE /\ panicked' = TRUE
            /\ UNCHANGED string
    /\ UNCHANGED <<facadeVars, now, regionVars, payloadVars, coreVars,
                   zoneVars, collectorVars, pc, frame, spin, hist>>

\* A call of string.set_special(key, contents): the key is stored before the
\* assertion.
CallSetSpecial(key, contents) ==
    /\ arg' = Some([op |-> "set_special", key |-> key, bytes |-> contents,
                    copy |-> contents # None])
    /\ made' = None
    /\ IF contents # None /\ ~Fits(Len(Unwrap(contents)))
       THEN /\ string' = [string EXCEPT !.key = key]
            /\ panicked' = TRUE
       ELSE /\ string' = set_special(string, key, contents)
            /\ panicked' = FALSE
    /\ UNCHANGED <<facadeVars, now, regionVars, payloadVars, coreVars,
                   zoneVars, collectorVars, pc, frame, spin, hist>>

\* A call of string.make_str() after a call that returned.
CallMakeStr ==
    /\ arg # None
    /\ ~panicked
    /\ made' = Some(make_str(string))
    /\ UNCHANGED <<facadeVars, string, arg, panicked, now, regionVars,
                   payloadVars, coreVars, zoneVars, collectorVars, pc, frame,
                   spin, hist>>

\* Faulty variant of RetrieveCounts: the overflow is not counted.
RetrieveCounts_NoLost(sz) ==
    IF sz <= NUM_ENTRIES
    THEN [retrieved |-> sz, lost |-> 0]
    ELSE [retrieved |-> NUM_ENTRIES, lost |-> 0]

\* Payload::retrieve_unchecked, the pair (retrieved, lost).
RetrieveCounts(sz) ==
    IF sz <= NUM_ENTRIES
    THEN [retrieved |-> sz, lost |-> 0]
    ELSE [retrieved |-> NUM_ENTRIES, lost |-> sz - NUM_ENTRIES]

\* Faulty variant of OpenResult: the protocol version is checked before the
\* magic.
OpenResult_VersionFirst(f) ==
    IF f = None THEN "ShmemError"
    ELSE IF Unwrap(f).protocol_version # PROTOCOL_VERSION
    THEN "ProtocolMismatch"
    ELSE IF Unwrap(f).magic # MAGIC THEN "BadMagic"
    ELSE IF Unwrap(f).size_of_usize # SIZE_OF_USIZE THEN "PlatformMismatch"
    ELSE "Ok"

\* SharedMemory::open on the file f (None: no file at the path).
OpenResult(f) ==
    IF f = None THEN "ShmemError"
    ELSE IF Unwrap(f).magic # MAGIC THEN "BadMagic"
    ELSE IF Unwrap(f).protocol_version # PROTOCOL_VERSION
    THEN "ProtocolMismatch"
    ELSE IF Unwrap(f).size_of_usize # SIZE_OF_USIZE THEN "PlatformMismatch"
    ELSE "Ok"

(* ------------------------------- core.rs ------------------------------- *)
\* Duration::as_secs of a duration given in ticks.
AsSecs(d) ==
    d \div TicksPerSec

\* Instant::saturating_duration_since.
SaturatingDurationSince(later, earlier) ==
    IF later >= earlier THEN later - earlier ELSE 0

\* Faulty variant of ShouldInit: the duration is compared in clock ticks, not
\* in whole seconds.
ShouldInit_Ticks(last, t) ==
    IF last = None THEN TRUE
    ELSE SaturatingDurationSince(t, Unwrap(last)) >= RETRY_SECS

\* Faulty variant of ShouldInit: a failed attempt is never repeated.
ShouldInit_Once(last, t) ==
    last = None

\* should_init of get_shmem_data_and_start_time.
ShouldInit(last, t) ==
    IF last = None THEN TRUE
    ELSE AsSecs(SaturatingDurationSince(t, Unwrap(last))) >= RETRY_SECS

(* ------------------------------- lib.rs -------------------------------- *)
\* THREAD_INFO as Zone::new creates it on a thread's first zone.
NewThreadInfo ==
    [name_sent |-> FALSE, depth |-> 0]

\* Zone::new, the thread info it works on (created if absent).
EnsureThreadInfo(ti) ==
    IF ti = None THEN NewThreadInfo ELSE Unwrap(ti)

\* Faulty variant of EnterDepth: the depth is read after the increment.
EnterDepth_After(ti) ==
    ti.depth + 1

\* Zone::new, the depth stored in the zone: ti.depth before the increment.
EnterDepth(ti) ==
    ti.depth

\* Faulty variant of EnterThreadName: the test of name_sent is inverted.
EnterThreadName_Inverted(ti) ==
    IF ti.name_sent THEN TRUE ELSE FALSE

\* Zone::new, whether the zone carries the thread name bytes (Some) or None.
EnterThreadName(ti) ==
    IF ti.name_sent THEN FALSE ELSE TRUE

\* Zone::new, the thread info it leaves behind: ti.depth += 1.
EnterThreadInfo(ti) ==
    [ti EXCEPT !.depth = @ + 1]

\* Faulty variant of LeaveThreadInfo: name_sent does not depend on ok.
LeaveThreadInfo_IgnoreOk(ti, ok, has_name) ==
    [ti EXCEPT !.name_sent = IF has_name THEN TRUE ELSE @,
               !.depth = @ - 1]

\* Drop for Zone, the thread info it leaves behind.
LeaveThreadInfo(ti, ok, has_name) ==
    [ti EXCEPT !.name_sent = IF ok /\ has_name THEN TRUE ELSE @,
               !.depth = @ - 1]

\* Faulty variant of WriteInto: the zone name is copied every time.
WriteInto_AlwaysCopy(z, copy) ==
    [zid |-> z.zid, uid |-> z.info, end |-> Unwrap(z.time_data).end,
     duration |-> Unwrap(z.time_data).duration, depth |-> z.depth,
     name_has |-> TRUE, thread |-> z.thread_id, thread_has |-> z.thread_name]

\* WriteInto<ZoneData> for Zone: the entry a zone writes into a data slot;
\* name.set reads the call site's copy_name, thread.set_special the zone's
\* thread_name.
WriteInto(z, copy) ==
    [zid |-> z.zid, uid |-> z.info, end |-> Unwrap(z.time_data).end,
     duration |-> Unwrap(z.time_data).duration, depth |-> z.depth,
     name_has |-> copy, thread |-> z.thread_id, thread_has |-> z.thread_name]

\* Drop for Zone, the TimeData it writes: end counts from the process start
\* and duration from the zone's start.  Instants are clock ticks, and the
\* model keeps both fields in ticks: as_secs_f64 and as_nanos are exact at
\* this resolution.
TimeData(end, process_start, zone_start) ==
    [end |-> SaturatingDurationSince(end, process_start),
     duration |-> SaturatingDurationSince(end, zone_start)]

\* A sequence without its k-th element.
RemoveAt(s, k) ==
    [i \in 1..(Len(s) - 1) |-> IF i < k THEN s[i] ELSE s[i + 1]]

(* ------------------------------ the state ------------------------------ *)
IdleFrame ==
    [caller |-> Nobody, cur |-> 0, test |-> None, end |-> 0, t_now |-> 0,
     opened |-> None, mem_result |-> Nobody, mapped |-> None,
     opt_mem |-> None, start_time |-> None, path |-> Nobody, entry |-> None,
     ret |-> FALSE, ok |-> FALSE, after_some |-> FALSE,
     num |-> 0, start |-> None, sz |-> 0]

NoHist ==
    [won |-> <<>>, pushed |-> 0, drain_won |-> <<>>, drain_pushed |-> 0,
     last_fail |-> None, opens |-> 0, some |-> None, valid_since |-> None,
     silent |-> {}, outer |-> <<>>, stored |-> <<>>,
     named |-> [t \in Threads |-> None],
     calls |-> <<>>, frames |-> <<>>, reports |-> 0, heap_some |-> 0,
     heap_none |-> 0, prev |-> None, drains |-> 0]

Init ==
    /\ now = 0
    /\ shm = None
    /\ nregions = 0
    /\ lock = FALSE
    /\ size = 0
    /\ data = [i \in 0..(NUM_ENTRIES - 1) |-> ZeroEntry]
    /\ core_init = FALSE
    /\ ready = FALSE
    /\ mem = None
    /\ last_check = None
    /\ mutex = Nobody
    /\ start_time = None
    /\ thread_info = [t \in Threads |-> None]
    /\ copy_name = [s \in Sites |-> TRUE]
    /\ zones = [t \in Threads |-> <<>>]
    /\ nzones = 0
    /\ already_sent = [t \in Threads |-> [s \in Sites |-> FALSE]]
    /\ pc = [t \in Threads |-> "idle"]
    /\ frame = [t \in Threads |-> IdleFrame]
    /\ spin = [t \in Threads \cup {Collector} |-> 0]
    /\ cpc = "idle"
    /\ dst = <<>>
    /\ drained = RetrieveCounts(0)
    /\ frame_time = None
    /\ frame_num = 0
    /\ frame_data = InitPayload(ZeroFrame)
    /\ total_size = 0
    /\ plot_data = InitPayload(ZeroPlot)
    /\ string = ZeroString
    /\ arg = None
    /\ made = None
    /\ panicked = FALSE
    /\ hist = NoHist

(* --------------------------- the environment --------------------------- *)
\* The clock advances.
Tick ==
    /\ now < MaxTime
    /\ now' = now + 1
    /\ UNCHANGED <<facadeVars, stringVars,
                   regionVars, payloadVars, coreVars, zoneVars, collectorVars,
                   pc, frame, spin, hist>>

\* SharedMemory::create by the server, with SharedMemoryData::init.
ServerCreate ==
    /\ shm = None
    /\ nregions < MaxRegions
    /\ nregions' = nregions + 1
    /\ shm' = Some([id |-> nregions + 1, magic |-> MAGIC,
                    protocol_version |-> PROTOCOL_VERSION,
                    size_of_usize |-> SIZE_OF_USIZE])
    /\ lock' = FALSE
    /\ size' = 0
    /\ frame_data' = [frame_data EXCEPT !.lock = FALSE, !.size = 0]
    /\ plot_data' = [plot_data EXCEPT !.lock = FALSE, !.size = 0]
    /\ hist' = [hist EXCEPT !.valid_since = Some(now)]
    /\ UNCHANGED <<frame_time, frame_num, total_size, stringVars,
                   now, data, coreVars, zoneVars, collectorVars, pc, frame,
                   spin>>

\* A file with another header appears at the path: a foreign file, a server
\* of another protocol version or of another pointer width.
ForeignCreate ==
    /\ shm = None
    /\ nregions < MaxRegions
    /\ \E m \in Magics, v \in Versions, w \in Widths :
          /\ ~(m = MAGIC /\ v = PROTOCOL_VERSION /\ w = SIZE_OF_USIZE)
          /\ shm' = Some([id |-> nregions + 1, magic |-> m,
                          protocol_version |-> v, size_of_usize |-> w])
    /\ nregions' = nregions + 1
    /\ UNCHANGED <<facadeVars, stringVars,
                   now, payloadVars, coreVars, zoneVars, collectorVars, pc,
                   frame, spin, hist>>

\* The file with the foreign header is removed again.
RemoveFile ==
    /\ shm # None
    /\ OpenResult(shm) # "Ok"
    /\ shm' = None
    /\ UNCHANGED <<facadeVars, stringVars,
                   now, nregions, payloadVars, coreVars, zoneVars,
                   collectorVars, pc, frame, spin, hist>>

(* -------------- core.rs: get_shmem_data_and_start_time ----------------- *)
\* The frame of thread t with the call's result: the region handed out (or
\* None) and the path the call took.
Returned(t, opt, path) ==
    [frame[t] EXCEPT !.opt_mem = opt, !.start_time = start_time,
                     !.path = path, !.mapped = None]

\* Faulty variant of CallOnce: every call writes start_time.
CallOnce_Again(t) ==
    /\ pc[t] = "a_once"
    /\ core_init' = TRUE
    /\ start_time' = Some(now)
    /\ pc' = [pc EXCEPT ![t] = "a_fast"]
    /\ frame' = [frame EXCEPT ![t].after_some = (hist.some # None)]
    /\ UNCHANGED <<facadeVars, stringVars,
                   now, regionVars, payloadVars, ready, mem, last_check, mutex,
                   zoneVars, collectorVars, spin, hist>>

\* CORE_INITIALIZER.call_once: the first caller writes CORE.
CallOnce(t) ==
    /\ pc[t] = "a_once"
    /\ IF core_init
       THEN UNCHANGED <<core_init, start_time>>
       ELSE /\ core_init' = TRUE
            /\ start_time' = Some(now)
    /\ pc' = [pc EXCEPT ![t] = "a_fast"]
    /\ frame' = [frame EXCEPT ![t].after_some = (hist.some # None)]
    /\ UNCHANGED <<facadeVars, stringVars,
                   now, regionVars, payloadVars, ready, mem, last_check, mutex,
                   zoneVars, collectorVars, spin, hist>>

\* The first read_volatile(&core.ready): the fast path.
FastPath(t) ==
    /\ pc[t] = "a_fast"
    /\ IF ready
       THEN /\ frame' = [frame EXCEPT ![t] = Returned(t, mem, "fast")]
            /\ pc' = [pc EXCEPT ![t] = "a_ret"]
       ELSE /\ pc' = [pc EXCEPT ![t] = "a_mutex"]
            /\ UNCHANGED frame
    /\ UNCHANGED <<facadeVars, stringVars,
                   now, regionVars, payloadVars, coreVars, zoneVars,
                   collectorVars, spin, hist>>

\* Faulty variant of LockMutex: the mutex is taken whoever holds it.
LockMutex_Barging(t) ==
    /\ pc[t] = "a_mutex"
    /\ mutex' = t
    /\ pc' = [pc EXCEPT ![t] = "a_recheck"]
    /\ UNCHANGED <<facadeVars, stringVars,
                   now, regionVars, payloadVars, core_init, ready, mem,
                   last_check, start_time, zoneVars, collectorVars, frame,
                   spin, hist>>

\* core.last_check.lock().
LockMutex(t) ==
    /\ pc[t] = "a_mutex"
    /\ mutex = Nobody
    /\ mutex' = t
    /\ pc' = [pc EXCEPT ![t] = "a_recheck"]
    /\ UNCHANGED <<facadeVars, stringVars,
                   now, regionVars, payloadVars, core_init, ready, mem,
                   last_check, start_time, zoneVars, collectorVars, frame,
                   spin, hist>>

\* Faulty variant of Recheck: ready is not read again under the mutex.
Recheck_NoCheck(t) ==
    /\ pc[t] = "a_recheck"
    /\ pc' = [pc EXCEPT ![t] = "a_now"]
    /\ UNCHANGED <<facadeVars, stringVars,
                   now, regionVars, payloadVars, coreVars, zoneVars,
                   collectorVars, frame, spin, hist>>

\* The second read_volatile(&core.ready), under the mutex.
Recheck(t) ==
    /\ pc[t] = "a_recheck"
    /\ IF ready
       THEN /\ frame' = [frame EXCEPT ![t] = Returned(t, mem, "recheck")]
            /\ mutex' = Nobody
            /\ pc' = [pc EXCEPT ![t] = "a_ret"]
       ELSE /\ pc' = [pc EXCEPT ![t] = "a_now"]
            /\ UNCHANGED <<frame, mutex>>
    /\ UNCHANGED <<facadeVars, stringVars,
                   now, regionVars, payloadVars, core_init, ready, mem,
                   last_check, start_time, zoneVars, collectorVars, spin,
                   hist>>

\* let now = Instant::now(); should_init; the throttled return.
ReadNow(t) ==
    /\ pc[t] = "a_now"
    /\ IF ShouldInit(last_check, now)
       THEN /\ frame' = [frame EXCEPT ![t].t_now = now]
            /\ pc' = [pc EXCEPT ![t] = "a_open"]
            /\ UNCHANGED mutex
       ELSE /\ frame' = [frame EXCEPT
                           ![t] = [Returned(t, None, "throttled")
                                     EXCEPT !.t_now = now]]
            /\ mutex' = Nobody
            /\ pc' = [pc EXCEPT ![t] = "a_ret"]
    /\ UNCHANGED <<facadeVars, stringVars,
                   now, regionVars, payloadVars, core_init, ready, mem,
                   last_check, start_time, zoneVars, collectorVars, spin,
                   hist>>

\* shmem::SharedMemory::open(); on failure *last_check = Some(now).
Open(t) ==
    /\ pc[t] = "a_open"
    /\ IF OpenResult(shm) = "Ok"
       THEN /\ frame' = [frame EXCEPT ![t].mapped = Some(Unwrap(shm).id),
                                      ![t].opened = shm,
                                      ![t].mem_result = OpenResult(shm)]
            /\ pc' = [pc EXCEPT ![t] = "a_write"]
            /\ hist' = [hist EXCEPT !.opens = @ + 1]
            /\ UNCHANGED <<last_check, mutex>>
       ELSE /\ last_check' = Some(frame[t].t_now)
            /\ frame' = [frame EXCEPT
                           ![t] = [Returned(t, None, "failed") EXCEPT
                                     !.opened = shm,
                                     !.mem_result = OpenResult(shm)]]
            /\ mutex' = Nobody
            /\ pc' = [pc EXCEPT ![t] = "a_ret"]
            /\ hist' = [hist EXCEPT !.opens = @ + 1,
                                    !.last_fail = Some(frame[t].t_now)]
    /\ UNCHANGED <<facadeVars, stringVars,
                   now, regionVars, payloadVars, core_init, ready, mem,
                   start_time, zoneVars, collectorVars, spin>>

\* core.mem.write(mem).
WriteMem(t) ==
    /\ pc[t] = "a_write"
    /\ mem' = frame[t].mapped
    /\ pc' = [pc EXCEPT ![t] = "a_ready"]
    /\ UNCHANGED <<facadeVars, stringVars,
                   now, regionVars, payloadVars, core_init, ready, last_check,
                   mutex, start_time, zoneVars, collectorVars, frame, spin,
                   hist>>

\* write_volatile(&mut core.ready, true) and the return of Some(ret).
SetReady(t) ==
    /\ pc[t] = "a_ready"
    /\ ready' = TRUE
    /\ frame' = [frame EXCEPT ![t] = Returned(t, frame[t].mapped, "opened")]
    /\ mutex' = Nobody
    /\ pc' = [pc EXCEPT ![t] = "a_ret"]
    /\ UNCHANGED <<facadeVars, stringVars,
                   now, regionVars, payloadVars, core_init, mem, last_check,
                   start_time, zoneVars, collectorVars, spin, hist>>

\* preinit(): the call, and its return, which drops the result.
Preinit(t) ==
    /\ pc[t] = "idle"
    /\ frame' = [frame EXCEPT ![t].caller = "preinit"]
    /\ pc' = [pc EXCEPT ![t] = "a_once"]
    /\ UNCHANGED <<facadeVars, stringVars,
                   now, regionVars, payloadVars, coreVars, zoneVars,
                   collectorVars, spin, hist>>

\* The history remembers the first region a call handed out.
NoteReturn(t) ==
    IF frame[t].opt_mem # None /\ hist.some = None
    THEN [hist EXCEPT !.some = frame[t].opt_mem]
    ELSE hist

PreinitReturn(t) ==
    /\ pc[t] = "a_ret"
    /\ frame[t].caller = "preinit"
    /\ hist' = NoteReturn(t)
    /\ frame' = [frame EXCEPT ![t] = IdleFrame]
    /\ pc' = [pc EXCEPT ![t] = "idle"]
    /\ UNCHANGED <<facadeVars, stringVars,
                   now, regionVars, payloadVars, coreVars, zoneVars,
                   collectorVars, spin>>

(* ------------------------- lib.rs: Zone::new --------------------------- *)
\* Zone::new(info) on thread t at call site s.
ZoneNew(t, s) ==
    /\ pc[t] = "idle"
    /\ Len(zones[t]) < MaxDepth
    /\ nzones < MaxZones
    /\ LET ti == EnsureThreadInfo(thread_info[t])
           z == [zid |-> nzones + 1, info |-> s, start |-> now,
                 time_data |-> None,
                 thread_id |-> t, thread_name |-> EnterThreadName(ti),
                 depth |-> EnterDepth(ti)]
       IN  /\ thread_info' = [thread_info EXCEPT
                                ![t] = Some(EnterThreadInfo(ti))]
           /\ zones' = [zones EXCEPT ![t] = Append(@, z)]
    /\ nzones' = nzones + 1
    /\ hist' = [hist EXCEPT !.outer = Append(@, Len(zones[t]))]
    /\ UNCHANGED <<facadeVars, stringVars,
                   now, regionVars, payloadVars, coreVars, copy_name,
                   already_sent, collectorVars, pc, frame, spin>>

(* ------------------------ lib.rs: Drop for Zone ------------------------ *)
\* The zone thread t is dropping.
Cur(t) ==
    zones[t][frame[t].cur]

\* The call of the accessor that begins the drop.  Zone::end(self) may consume
\* any live zone of the thread, not only the innermost.
DropBegin(t, k) ==
    /\ pc[t] = "idle"
    /\ k \in 1..Len(zones[t])
    /\ frame' = [frame EXCEPT ![t].caller = "drop", ![t].cur = k,
                              ![t].end = now]
    /\ pc' = [pc EXCEPT ![t] = "a_once"]
    /\ UNCHANGED <<facadeVars, stringVars,
                   now, regionVars, payloadVars, coreVars, zoneVars,
                   collectorVars, spin, hist>>

\* The frame of thread t once the accessor's locals are gone.
AfterCall(t) ==
    [frame[t] EXCEPT !.t_now = 0, !.path = Nobody, !.after_some = FALSE,
                     !.opened = None, !.mem_result = Nobody,
                     !.start_time = None]

\* if let Some(mem) = opt_mem: time_data is written and push begins;
\* else ok = false.
DropGot(t) ==
    /\ pc[t] = "a_ret"
    /\ frame[t].caller = "drop"
    /\ hist' = [NoteReturn(t) EXCEPT
                  !.silent = IF frame[t].opt_mem = None
                             THEN @ \cup {Cur(t).zid} ELSE @]
    /\ IF frame[t].opt_mem # None
       THEN /\ zones' = [zones EXCEPT
                           ![t][frame[t].cur].time_data =
                               Some(TimeData(frame[t].end,
                                             Unwrap(frame[t].start_time),
                                             Cur(t).start))]
            /\ pc' = [pc EXCEPT ![t] = "p_lock"]
            /\ frame' = [frame EXCEPT ![t] = AfterCall(t)]
       ELSE /\ pc' = [pc EXCEPT ![t] = "d_flag"]
            /\ frame' = [frame EXCEPT ![t] = [AfterCall(t) EXCEPT
                                                !.ok = FALSE]]
            /\ UNCHANGED zones
    /\ UNCHANGED <<facadeVars, stringVars,
                   now, regionVars, payloadVars, coreVars, thread_info,
                   copy_name, nzones, already_sent, collectorVars, spin>>

(* ------------------------ tests.rs: test_shmem ------------------------- *)
\* WriteInto<ZoneData> for TestZoneData; zid identifies the entry, whose
\* random color, end, duration and depth no property reads and the model
\* leaves at zero; "thread" is the key of the thread string.
TestWriteInto(e) ==
    [zid |-> e.zid, uid |-> e.uid, end |-> 0, duration |-> 0, depth |-> 0,
     name_has |-> e.copy_strings, thread |-> "thread",
     thread_has |-> e.copy_strings]

\* One turn of the loop of test_shmem, on a region the test has opened:
\* the entry for the chosen zone s, and the call of push.
TestPush(t, s) ==
    /\ pc[t] = "idle"
    /\ OpenResult(shm) = "Ok"
    /\ nzones < MaxPushes
    /\ nzones' = nzones + 1
    /\ frame' = [frame EXCEPT
                   ![t].caller = "test",
                   ![t].test = Some([zid |-> nzones + 1, uid |-> s,
                                     copy_strings |-> ~already_sent[t][s]])]
    /\ pc' = [pc EXCEPT ![t] = "p_lock"]
    /\ UNCHANGED <<facadeVars, stringVars,
                   now, regionVars, payloadVars, coreVars, thread_info,
                   copy_name, zones, already_sent, collectorVars, spin, hist>>

\* if mem.zone_data.push(&test) { already_sent[chosen_zone] = true }.
TestSent(t) ==
    /\ pc[t] = "t_sent"
    /\ already_sent' = IF frame[t].ok
                       THEN [already_sent EXCEPT
                               ![t][Unwrap(frame[t].test).uid] = TRUE]
                       ELSE already_sent
    /\ frame' = [frame EXCEPT ![t] = IdleFrame]
    /\ pc' = [pc EXCEPT ![t] = "idle"]
    /\ UNCHANGED <<facadeVars, stringVars,
                   now, regionVars, payloadVars, coreVars, thread_info,
                   copy_name, zones, nzones, collectorVars, spin, hist>>

(* ----------------------- shmem.rs: Payload::push ----------------------- *)
\* Faulty variant of PushEntry: one copy_name flag serves every call site.
PushEntry_SharedFlag(t) ==
    IF frame[t].caller = "drop"
    THEN WriteInto(Cur(t), \A s \in Sites : copy_name[s])
    ELSE TestWriteInto(Unwrap(frame[t].test))

\* The entry thread t pushes: entry.write_into runs under the lock, and a
\* zone's reads its call site's copy_name then.
PushEntry(t) ==
    IF frame[t].caller = "drop"
    THEN WriteInto(Cur(t), copy_name[Cur(t).info])
    ELSE TestWriteInto(Unwrap(frame[t].test))

\* The history once thread t has stored its entry: a zone's ZoneData is
\* remembered.
Published(t) ==
    IF frame[t].caller = "drop"
    THEN [hist EXCEPT !.stored = Append(@, PushEntry(t))]
    ELSE hist

\* Faulty variant of PushUnlock: push returns without unlocking.
PushUnlock_Held(t) ==
    /\ pc[t] = "p_unlock"
    /\ lock' = TRUE
    /\ frame' = [frame EXCEPT ![t].ok = frame[t].ret, ![t].ret = FALSE]
    /\ hist' = [hist EXCEPT !.pushed = @ + 1]
    /\ pc' = [pc EXCEPT ![t] = IF frame[t].caller = "drop"
                               THEN "d_flag" ELSE "t_sent"]
    /\ UNCHANGED <<facadeVars, stringVars,
                   now, regionVars, size, data, coreVars, zoneVars,
                   collectorVars, spin>>

\* Faulty variant of PushLock: the loop ends whatever the swap returned.
PushLock_Blind(t) ==
    /\ pc[t] = "p_lock"
    /\ lock' = TRUE
    /\ spin' = [spin EXCEPT ![t] = 0]
    /\ pc' = [pc EXCEPT ![t] = "p_write"]
    /\ hist' = [hist EXCEPT !.won = Append(@, PushEntry(t).zid)]
    /\ UNCHANGED <<facadeVars, stringVars,
                   now, regionVars, size, data, coreVars, zoneVars,
                   collectorVars, frame>>

\* self.lock.lock(): one iteration of the swap loop.
PushLock(t) ==
    /\ pc[t] = "p_lock"
    /\ lock' = TRUE
    /\ IF lock
       THEN /\ spin' = [spin EXCEPT ![t] = NextSpin(@)]
            /\ UNCHANGED <<pc, hist>>
       ELSE /\ spin' = [spin EXCEPT ![t] = 0]
            /\ pc' = [pc EXCEPT ![t] = "p_write"]
            /\ hist' = [hist EXCEPT !.won = Append(@, PushEntry(t).zid)]
    /\ UNCHANGED <<facadeVars, stringVars,
                   now, regionVars, size, data, coreVars, zoneVars,
                   collectorVars, frame>>

\* Faulty variant of PushWrite: a full payload stores the entry in its last
\* slot.
PushWrite_Overwrite(t) ==
    /\ pc[t] = "p_write"
    /\ IF HasRoom(size)
       THEN /\ data' = [data EXCEPT ![size] = PushEntry(t)]
            /\ frame' = [frame EXCEPT ![t].ret = TRUE]
       ELSE /\ data' = [data EXCEPT ![NUM_ENTRIES - 1] = PushEntry(t)]
            /\ frame' = [frame EXCEPT ![t].ret = FALSE]
    /\ hist' = IF HasRoom(size) THEN Published(t) ELSE hist
    /\ pc' = [pc EXCEPT ![t] = "p_inc"]
    /\ UNCHANGED <<facadeVars, stringVars,
                   now, regionVars, lock, size, coreVars, zoneVars,
                   collectorVars, spin>>

\* if self.size < NUM_ENTRIES { entry.write_into(&mut self.data[self.size]) }.
PushWrite(t) ==
    /\ pc[t] = "p_write"
    /\ IF HasRoom(size)
       THEN /\ data' = [data EXCEPT ![size] = PushEntry(t)]
            /\ frame' = [frame EXCEPT ![t].ret = TRUE]
            /\ hist' = Published(t)
       ELSE /\ frame' = [frame EXCEPT ![t].ret = FALSE]
            /\ UNCHANGED <<data, hist>>
    /\ pc' = [pc EXCEPT ![t] = "p_inc"]
    /\ UNCHANGED <<facadeVars, stringVars,
                   now, regionVars, lock, size, coreVars, zoneVars,
                   collectorVars, spin>>

\* self.size += 1.
PushInc(t) ==
    /\ pc[t] = "p_inc"
    /\ size' = size + 1
    /\ pc' = [pc EXCEPT ![t] = "p_unlock"]
    /\ UNCHANGED <<facadeVars, stringVars,
                   now, regionVars, lock, data, coreVars, zoneVars,
                   collectorVars, frame, spin, hist>>

\* self.lock.unlock(); ret, which Drop stores in ok.
PushUnlock(t) ==
    /\ pc[t] = "p_unlock"
    /\ lock' = FALSE
    /\ frame' = [frame EXCEPT ![t].ok = frame[t].ret, ![t].ret = FALSE]
    /\ hist' = [hist EXCEPT !.pushed = @ + 1]
    /\ pc' = [pc EXCEPT ![t] = IF frame[t].caller = "drop"
                               THEN "d_flag" ELSE "t_sent"]
    /\ UNCHANGED <<facadeVars, stringVars,
                   now, regionVars, size, data, coreVars, zoneVars,
                   collectorVars, spin>>

(* ------------------- lib.rs: Drop for Zone, the end -------------------- *)
\* Faulty variant of DropFlag: copy_name is cleared whatever push returned.
DropFlag_Always(t) ==
    /\ pc[t] = "d_flag"
    /\ copy_name' = [copy_name EXCEPT ![Cur(t).info] = FALSE]
    /\ pc' = [pc EXCEPT ![t] = "d_leave"]
    /\ UNCHANGED <<facadeVars, stringVars,
                   now, regionVars, payloadVars, coreVars, thread_info, zones,
                   nzones, already_sent, collectorVars, frame, spin, hist>>

\* if ok { self.info.copy_name = false }.  The flag is a plain bool that the
\* threads at one call site read (in write_into, under the payload lock) and
\* write (here, outside it) without synchronisation: each access is a step,
\* and a racing read returns the value before or after a racing write.
DropFlag(t) ==
    /\ pc[t] = "d_flag"
    /\ copy_name' = IF frame[t].ok
                    THEN [copy_name EXCEPT ![Cur(t).info] = FALSE]
                    ELSE copy_name
    /\ pc' = [pc EXCEPT ![t] = "d_leave"]
    /\ UNCHANGED <<facadeVars, stringVars,
                   now, regionVars, payloadVars, coreVars, thread_info, zones,
                   nzones, already_sent, collectorVars, frame, spin, hist>>

\* The history once thread t has left its zone: the number of zones entered
\* so far is remembered when name_sent is set.
Left(t) ==
    IF /\ ~Unwrap(thread_info[t]).name_sent
       /\ LeaveThreadInfo(Unwrap(thread_info[t]), frame[t].ok,
                          Cur(t).thread_name).name_sent
    THEN [hist EXCEPT !.named[t] = Some(nzones)]
    ELSE hist

\* THREAD_INFO.with: name_sent, depth -= 1; the zone is gone.
DropLeave(t) ==
    /\ pc[t] = "d_leave"
    /\ thread_info' = [thread_info EXCEPT
                         ![t] = Some(LeaveThreadInfo(Unwrap(@), frame[t].ok,
                                                     Cur(t).thread_name))]
    /\ zones' = [zones EXCEPT ![t] = RemoveAt(@, frame[t].cur)]
    /\ frame' = [frame EXCEPT ![t] = IdleFrame]
    /\ pc' = [pc EXCEPT ![t] = "idle"]
    /\ hist' = Left(t)
    /\ UNCHANGED <<facadeVars, stringVars,
                   now, regionVars, payloadVars, coreVars, copy_name, nzones,
                   already_sent, collectorVars, spin>>

(* --------------------- lib.rs: frame_delimiter! ------------------------ *)
\* frame_delimiter!(): now is read, and send_frame_info is called with the
\* statics of the call site.
FrameBegin(t) ==
    /\ pc[t] = "idle"
    /\ frame_num < MaxFrames
    /\ frame' = [frame EXCEPT ![t].caller = "frame", ![t].num = frame_num,
                              ![t].start = frame_time, ![t].end = now]
    /\ pc' = [pc EXCEPT ![t] = "a_once"]
    /\ hist' = [hist EXCEPT !.calls = Append(@, now)]
    /\ UNCHANGED <<facadeVars, stringVars,
                   now, regionVars, payloadVars, coreVars, zoneVars,
                   collectorVars, spin>>

\* send_frame_info: the FrameData it builds; start.unwrap_or(start_time).
FrameEntry(num, start, end, process_start) ==
    [number |-> num,
     end |-> SaturatingDurationSince(end, process_start),
     duration |-> SaturatingDurationSince(end,
                     IF start = None THEN process_start ELSE Unwrap(start))]

\* send_frame_info: if let Some(mem) = opt_mem, the entry is built and
\* pushed.
FrameGot(t) ==
    /\ pc[t] = "a_ret"
    /\ frame[t].caller = "frame"
    /\ hist' = NoteReturn(t)
    /\ IF frame[t].opt_mem # None
       THEN /\ frame' = [frame EXCEPT
                           ![t] = [AfterCall(t) EXCEPT
                                     !.entry =
                                        Some(FrameEntry(frame[t].num,
                                               frame[t].start, frame[t].end,
                                               Unwrap(frame[t].start_time)))]]
            /\ pc' = [pc EXCEPT ![t] = "q_lock"]
       ELSE /\ frame' = [frame EXCEPT ![t] = AfterCall(t)]
            /\ pc' = [pc EXCEPT ![t] = "f_static"]
    /\ UNCHANGED <<facadeVars, stringVars,
                   now, regionVars, payloadVars, coreVars, zoneVars,
                   collectorVars, spin>>

\* __TL_FRAME_TIME = Some(now); __TL_FRAME_NUM += 1.
FrameStatics(t) ==
    /\ pc[t] = "f_static"
    /\ frame_time' = Some(frame[t].end)
    /\ frame_num' = frame_num + 1
    /\ frame' = [frame EXCEPT ![t] = IdleFrame]
    /\ pc' = [pc EXCEPT ![t] = "idle"]
    /\ UNCHANGED <<frame_data, total_size, plot_data, stringVars,
                   now, regionVars, payloadVars, coreVars, zoneVars,
                   collectorVars, spin, hist>>

(* ------------------------ lib.rs: heap_tracker ------------------------- *)
\* The sizes of the layouts allocated.
LayoutSizes ==
    {1, 2}

\* GlobalAlloc::alloc: TOTAL_SIZE.fetch_add, and the call of report_heap.
Alloc(t, n) ==
    /\ pc[t] = "idle"
    /\ hist.reports < MaxReports
    /\ total_size' = total_size + n
    /\ frame' = [frame EXCEPT ![t].caller = "heap",
                              ![t].sz = total_size + n]
    /\ pc' = [pc EXCEPT ![t] = "h_ro"]
    /\ hist' = [hist EXCEPT !.reports = @ + 1]
    /\ UNCHANGED <<frame_time, frame_num, frame_data, plot_data, stringVars,
                   now, regionVars, payloadVars, coreVars, zoneVars,
                   collectorVars, spin>>

\* GlobalAlloc::dealloc of a layout allocated before: TOTAL_SIZE.fetch_sub,
\* and the call of report_heap.
Dealloc(t, n) ==
    /\ pc[t] = "idle"
    /\ hist.reports < MaxReports
    /\ n <= total_size
    /\ total_size' = total_size - n
    /\ frame' = [frame EXCEPT ![t].caller = "heap",
                              ![t].sz = total_size - n]
    /\ pc' = [pc EXCEPT ![t] = "h_ro"]
    /\ hist' = [hist EXCEPT !.reports = @ + 1]
    /\ UNCHANGED <<frame_time, frame_num, frame_data, plot_data, stringVars,
                   now, regionVars, payloadVars, coreVars, zoneVars,
                   collectorVars, spin>>

\* core::get_shmem_data_and_start_time_ro: the fast path alone.  The region
\* and start_time are handed out when CORE is written and ready; nothing is
\* locked, opened or written.
GetRo(t) ==
    /\ pc[t] = "h_ro"
    /\ frame' = [frame EXCEPT
                   ![t].opt_mem = IF core_init /\ ready THEN mem ELSE None,
                   ![t].start_time = IF core_init /\ ready
                                     THEN start_time ELSE None]
    /\ pc' = [pc EXCEPT ![t] = "h_got"]
    /\ UNCHANGED <<facadeVars, stringVars,
                   now, regionVars, payloadVars, coreVars, zoneVars,
                   collectorVars, spin, hist>>

\* report_heap: if let Some((core, start)), the entry is built, with
\* start.elapsed(), and pushed; else the sample is dropped.
HeapGot(t) ==
    /\ pc[t] = "h_got"
    /\ IF frame[t].opt_mem # None
       THEN /\ frame' = [frame EXCEPT
                           ![t].entry =
                               Some([time |-> now - Unwrap(frame[t].start_time),
                                     value |-> frame[t].sz]),
                           ![t].start_time = None]
            /\ pc' = [pc EXCEPT ![t] = "q_lock"]
            /\ hist' = [hist EXCEPT !.heap_some = @ + 1]
       ELSE /\ frame' = [frame EXCEPT ![t] = IdleFrame]
            /\ pc' = [pc EXCEPT ![t] = "idle"]
            /\ hist' = [hist EXCEPT !.heap_none = @ + 1]
    /\ UNCHANGED <<facadeVars, stringVars,
                   now, regionVars, payloadVars, coreVars, zoneVars,
                   collectorVars, spin>>

\* Faulty variant of HeapWriteInto: the series is named as a plot's is.
HeapWriteInto_Named(entry, target) ==
    [time |-> entry.time, value |-> entry.value,
     name |-> set_special(target.name, 1, None)]

\* WriteInto<PlotData> for HeapPlotData, on the slot target.
HeapWriteInto(entry, target) ==
    [time |-> entry.time, value |-> entry.value,
     name |-> set_special(target.name, 0, None)]

(* ------------ shmem.rs: Payload::push, frame_data and plot_data -------- *)
\* The payload thread t pushes to: frame_data for send_frame_info, plot_data
\* for report_heap.
Target(t) ==
    IF frame[t].caller = "frame" THEN frame_data ELSE plot_data

\* That payload becomes p.
Store(t, p) ==
    IF frame[t].caller = "frame"
    THEN frame_data' = p /\ UNCHANGED plot_data
    ELSE plot_data' = p /\ UNCHANGED frame_data

\* entry.write_into(target): a FrameData is Copy and overwrites the slot, a
\* HeapPlotData writes its fields.
FacadeEntry(t, target) ==
    IF frame[t].caller = "frame"
    THEN Unwrap(frame[t].entry)
    ELSE HeapWriteInto(Unwrap(frame[t].entry), target)

\* self.lock.lock(): one iteration of the swap loop.
FacadeLock(t) ==
    /\ pc[t] = "q_lock"
    /\ Store(t, [Target(t) EXCEPT !.lock = TRUE])
    /\ IF Target(t).lock
       THEN /\ spin' = [spin EXCEPT ![t] = NextSpin(@)]
            /\ UNCHANGED pc
       ELSE /\ spin' = [spin EXCEPT ![t] = 0]
            /\ pc' = [pc EXCEPT ![t] = "q_write"]
    /\ UNCHANGED <<frame_time, frame_num, total_size, stringVars,
                   now, regionVars, payloadVars, coreVars, zoneVars,
                   collectorVars, frame, hist>>

\* if self.size < NUM_ENTRIES { entry.write_into(&mut self.data[self.size]) }.
FacadeWrite(t) ==
    /\ pc[t] = "q_write"
    /\ IF HasRoom(Target(t).size)
       THEN /\ Store(t, [Target(t) EXCEPT
                           !.data[Target(t).size] =
                               FacadeEntry(t, Target(t).data[Target(t).size])])
            /\ frame' = [frame EXCEPT ![t].ret = TRUE]
            /\ hist' = IF frame[t].caller = "frame"
                       THEN [hist EXCEPT
                               !.frames = Append(@, Unwrap(frame[t].entry))]
                       ELSE hist
       ELSE /\ frame' = [frame EXCEPT ![t].ret = FALSE]
            /\ UNCHANGED <<frame_data, plot_data, hist>>
    /\ pc' = [pc EXCEPT ![t] = "q_inc"]
    /\ UNCHANGED <<frame_time, frame_num, total_size, stringVars,
                   now, regionVars, payloadVars, coreVars, zoneVars,
                   collectorVars, spin>>

\* self.size += 1.
FacadeInc(t) ==
    /\ pc[t] = "q_inc"
    /\ Store(t, [Target(t) EXCEPT !.size = @ + 1])
    /\ pc' = [pc EXCEPT ![t] = "q_unlock"]
    /\ UNCHANGED <<frame_time, frame_num, total_size, stringVars,
                   now, regionVars, payloadVars, coreVars, zoneVars,
                   collectorVars, frame, spin, hist>>

\* self.lock.unlock(); ret is dropped: send_frame_info returns to the
\* macro, report_heap to the allocator.
FacadeUnlock(t) ==
    /\ pc[t] = "q_unlock"
    /\ Store(t, [Target(t) EXCEPT !.lock = FALSE])
    /\ IF frame[t].caller = "frame"
       THEN /\ frame' = [frame EXCEPT ![t].ret = FALSE, ![t].entry = None]
            /\ pc' = [pc EXCEPT ![t] = "f_static"]
       ELSE /\ frame' = [frame EXCEPT ![t] = IdleFrame]
            /\ pc' = [pc EXCEPT ![t] = "idle"]
    /\ UNCHANGED <<frame_time, frame_num, total_size, stringVars,
                   now, regionVars, payloadVars, coreVars, zoneVars,
                   collectorVars, spin, hist>>

(* --------------- shmem.rs: Payload::retrieve_unchecked ----------------- *)
\* The server, which created the region, starts a retrieve of zone_data.
DrainBegin ==
    /\ cpc = "idle"
    /\ OpenResult(shm) = "Ok"
    /\ cpc' = "r_lock"
    /\ UNCHANGED <<facadeVars, stringVars,
                   now, regionVars, payloadVars, coreVars, zoneVars, dst,
                   drained, pc, frame, spin, hist>>

\* self.lock.lock(): one iteration of the swap loop.
DrainLock ==
    /\ cpc = "r_lock"
    /\ lock' = TRUE
    /\ IF lock
       THEN /\ spin' = [spin EXCEPT ![Collector] = NextSpin(@)]
            /\ UNCHANGED cpc
       ELSE /\ spin' = [spin EXCEPT ![Collector] = 0]
            /\ cpc' = "r_copy"
    /\ UNCHANGED <<facadeVars, stringVars,
                   now, regionVars, size, data, coreVars, zoneVars, dst,
                   drained, pc, frame, hist>>

\* (retrieved, lost) and copy_nonoverlapping(self.data, dst, retrieved).
DrainCopy ==
    /\ cpc = "r_copy"
    /\ drained' = RetrieveCounts(size)
    /\ dst' = [i \in 1..RetrieveCounts(size).retrieved |-> data[i - 1]]
    /\ hist' = [hist EXCEPT !.drain_won = hist.won,
                            !.drain_pushed = hist.pushed]
    /\ cpc' = "r_reset"
    /\ UNCHANGED <<facadeVars, stringVars,
                   now, regionVars, payloadVars, coreVars, zoneVars, pc,
                   frame, spin>>

\* self.size = 0.
DrainReset ==
    /\ cpc = "r_reset"
    /\ size' = 0
    /\ hist' = [hist EXCEPT !.won = <<>>, !.pushed = 0]
    /\ cpc' = "r_unlock"
    /\ UNCHANGED <<facadeVars, stringVars,
                   now, regionVars, lock, data, coreVars, zoneVars, dst,
                   drained, pc, frame, spin>>

\* Faulty variant of DrainUnlock: the lock is left held.
DrainUnlock_Held ==
    /\ cpc = "r_unlock"
    /\ lock' = TRUE
    /\ cpc' = "r_done"
    /\ UNCHANGED <<facadeVars, stringVars,
                   now, regionVars, size, data, coreVars, zoneVars, dst,
                   drained, pc, frame, spin, hist>>

\* self.lock.unlock() and the return of (retrieved, lost).
DrainUnlock ==
    /\ cpc = "r_unlock"
    /\ lock' = FALSE
    /\ cpc' = "r_done"
    /\ UNCHANGED <<facadeVars, stringVars,
                   now, regionVars, size, data, coreVars, zoneVars, dst,
                   drained, pc, frame, spin, hist>>

\* The server consumes the result; its buffer goes out of scope.
DrainDone ==
    /\ cpc = "r_done"
    /\ cpc' = "idle"
    /\ dst' = <<>>
    /\ drained' = RetrieveCounts(0)
    /\ hist' = [hist EXCEPT !.drain_won = <<>>, !.drain_pushed = 0,
                            !.prev = None]
    /\ UNCHANGED <<facadeVars, stringVars,
                   now, regionVars, payloadVars, coreVars, zoneVars, pc,
                   frame, spin>>

\* The server calls retrieve again at once, as in the loop of a collector:
\* the result of the call before is remembered, and whether a push had won
\* the lock since the drain before it.
DrainAgain ==
    /\ cpc = "r_done"
    /\ OpenResult(shm) = "Ok"
    /\ cpc' = "r_lock"
    /\ dst' = <<>>
    /\ drained' = RetrieveCounts(0)
    /\ hist' = [hist EXCEPT !.drain_won = <<>>, !.drain_pushed = 0,
                            !.prev = Some([counts |-> drained,
                                           quiet |-> hist.drain_won = <<>>])]
    /\ UNCHANGED <<facadeVars, stringVars,
                   now, regionVars, payloadVars, coreVars, zoneVars, pc,
                   frame, spin>>

\* A server that retrieves a finite number of times starts a retrieve of
\* zone_data.
RetrieveCall ==
    /\ cpc = "idle"
    /\ OpenResult(shm) = "Ok"
    /\ hist.drains < MaxDrains
    /\ cpc' = "r_lock"
    /\ hist' = [hist EXCEPT !.drains = @ + 1]
    /\ UNCHANGED <<facadeVars, stringVars,
                   now, regionVars, payloadVars, coreVars, zoneVars, dst,
                   drained, pc, frame, spin>>

(* --------------------------- specifications ---------------------------- *)
Accessor(t) ==
    \/ CallOnce(t)
    \/ FastPath(t)
    \/ LockMutex(t)
    \/ Recheck(t)
    \/ ReadNow(t)
    \/ Open(t)
    \/ WriteMem(t)
    \/ SetReady(t)

Push(t) ==
    \/ PushLock(t)
    \/ PushWrite(t)
    \/ PushInc(t)
    \/ PushUnlock(t)

ZoneOps(t) ==
    \/ \E s \in Sites : ZoneNew(t, s)
    \/ \E k \in 1..MaxDepth : DropBegin(t, k)
    \/ DropGot(t)
    \/ DropFlag(t)
    \/ DropLeave(t)

Drain ==
    \/ DrainBegin
    \/ DrainLock
    \/ DrainCopy
    \/ DrainReset
    \/ DrainUnlock
    \/ DrainDone

Environment ==
    \/ Tick
    \/ ServerCreate
    \/ ForeignCreate
    \/ RemoveFile

TestOps(t) ==
    \/ \E s \in Sites : TestPush(t, s)
    \/ TestSent(t)

\* The whole program: producers, collector and environment.
Next ==
    \/ \E t \in Threads : Accessor(t) \/ Push(t) \/ ZoneOps(t) \/ TestOps(t)
    \/ \E t \in Threads : Preinit(t) \/ PreinitReturn(t)
    \/ Drain
    \/ Environment

Spec ==
    Init /\ [][Next]_vars

\* Attachment alone: threads that call preinit() while the clock runs and
\* files come and go at the path.
NextAttach ==
    \/ \E t \in Threads : Accessor(t)
    \/ \E t \in Threads : Preinit(t) \/ PreinitReturn(t)
    \/ Environment

SpecAttach ==
    Init /\ [][NextAttach]_vars

\* The scheduler runs every thread again and again, every thread keeps
\* calling, and the clock advances.
Fairness ==
    /\ WF_vars(Tick)
    /\ \A t \in Threads :
          WF_vars(Accessor(t) \/ Preinit(t) \/ PreinitReturn(t))

SpecAttachLive ==
    SpecAttach /\ Fairness

\* The state ServerCreate leaves: the server has created region 1.
InitCreated ==
    /\ now = 0
    /\ shm = Some([id |-> 1, magic |-> MAGIC,
                   protocol_version |-> PROTOCOL_VERSION,
                   size_of_usize |-> SIZE_OF_USIZE])
    /\ nregions = 1
    /\ lock = FALSE
    /\ size = 0
    /\ data = [i \in 0..(NUM_ENTRIES - 1) |-> ZeroEntry]
    /\ core_init = FALSE
    /\ ready = FALSE
    /\ mem = None
    /\ last_check = None
    /\ mutex = Nobody
    /\ start_time = None
    /\ thread_info = [t \in Threads |-> None]
    /\ copy_name = [s \in Sites |-> TRUE]
    /\ zones = [t \in Threads |-> <<>>]
    /\ nzones = 0
    /\ already_sent = [t \in Threads |-> [s \in Sites |-> FALSE]]
    /\ pc = [t \in Threads |-> "idle"]
    /\ frame = [t \in Threads |-> IdleFrame]
    /\ spin = [t \in Threads \cup {Collector} |-> 0]
    /\ cpc = "idle"
    /\ dst = <<>>
    /\ drained = RetrieveCounts(0)
    /\ frame_time = None
    /\ frame_num = 0
    /\ frame_data = InitPayload(ZeroFrame)
    /\ total_size = 0
    /\ plot_data = InitPayload(ZeroPlot)
    /\ string = ZeroString
    /\ arg = None
    /\ made = None
    /\ panicked = FALSE
    /\ hist = [NoHist EXCEPT !.valid_since = Some(0)]

\* The queue alone: threads that push as test_shmem does while the
\* collector drains.
NextPayload ==
    \/ \E t \in Threads : TestOps(t) \/ Push(t)
    \/ Drain

SpecPayload ==
    InitCreated /\ [][NextPayload]_vars

\* The collector's loop: it drains again and again while one thread pushes
\* as test_shmem does.
NextDrain ==
    \/ \E t \in {"t1"} : TestOps(t) \/ Push(t)
    \/ Drain
    \/ DrainAgain

SpecDrain ==
    InitCreated /\ [][NextDrain]_vars

\* The steps of a retrieve once it is called.
Retrieving ==
    \/ DrainLock
    \/ DrainCopy
    \/ DrainReset
    \/ DrainUnlock
    \/ DrainDone

\* Finitely many operations on zone_data: the threads push as test_shmem
\* does, MaxPushes times in all and for one zone, and the collector
\* retrieves MaxDrains times.
NextLock ==
    \/ \E t \in Threads : TestPush(t, "s1") \/ TestSent(t) \/ Push(t)
    \/ RetrieveCall
    \/ Retrieving

\* The scheduler runs every thread and the collector again and again: a
\* swap on a lock that stays free is executed, and wins.
LockFairness ==
    /\ \A t \in Threads :
          WF_vars(TestPush(t, "s1") \/ TestSent(t) \/ Push(t))
    /\ WF_vars(RetrieveCall \/ Retrieving)

SpecLock ==
    InitCreated /\ [][NextLock]_vars /\ LockFairness

\* The thread that runs zones from a cold start.
ZoneThreads ==
    {"t1"}

\* Zones from a cold start: the process is not attached, the clock runs and
\* files come and go at the path while one thread enters and leaves zones.
NextZone ==
    \/ \E t \in ZoneThreads : Accessor(t) \/ Push(t) \/ ZoneOps(t)
    \/ Environment

SpecZone ==
    Init /\ [][NextZone]_vars

\* The entry another producer process has left in slot i of zone_data: one
\* of test_shmem, which copies its strings.
OtherEntry(i) ==
    TestWriteInto([zid |-> MaxZones + MaxPushes + i + 1, uid |-> "other",
                   copy_strings |-> TRUE])

\* The region as this process finds it: not created at all, or created by
\* the server and holding the k entries another producer has pushed.
InitNames ==
    \/ Init
    \/ \E k \in 0..NUM_ENTRIES :
          /\ now = 0
          /\ shm = Some([id |-> 1, magic |-> MAGIC,
                         protocol_version |-> PROTOCOL_VERSION,
                         size_of_usize |-> SIZE_OF_USIZE])
          /\ nregions = 1
          /\ lock = FALSE
          /\ size = k
          /\ data = [i \in 0..(NUM_ENTRIES - 1) |->
                       IF i < k THEN OtherEntry(i) ELSE ZeroEntry]
          /\ core_init = FALSE
          /\ ready = FALSE
          /\ mem = None
          /\ last_check = None
          /\ mutex = Nobody
          /\ start_time = None
          /\ thread_info = [t \in Threads |-> None]
          /\ copy_name = [s \in Sites |-> TRUE]
          /\ zones = [t \in Threads |-> <<>>]
          /\ nzones = 0
          /\ already_sent = [t \in Threads |-> [s \in Sites |-> FALSE]]
          /\ pc = [t \in Threads |-> "idle"]
          /\ frame = [t \in Threads |-> IdleFrame]
          /\ spin = [t \in Threads \cup {Collector} |-> 0]
          /\ cpc = "idle"
          /\ dst = <<>>
          /\ drained = RetrieveCounts(0)
          /\ frame_time = None
          /\ frame_num = 0
          /\ frame_data = InitPayload(ZeroFrame)
          /\ total_size = 0
          /\ plot_data = InitPayload(ZeroPlot)
          /\ string = ZeroString
          /\ arg = None
          /\ made = None
          /\ panicked = FALSE
          /\ hist = [NoHist EXCEPT
                       !.valid_since = Some(0),
                       !.won = [i \in 1..k |-> OtherEntry(i - 1).zid],
                       !.pushed = k]

FrameOps(t) ==
    \/ FrameBegin(t)
    \/ FrameGot(t)
    \/ FrameStatics(t)

HeapOps(t) ==
    \/ \E n \in LayoutSizes : Alloc(t, n)
    \/ \E n \in LayoutSizes : Dealloc(t, n)
    \/ GetRo(t)
    \/ HeapGot(t)

FacadePush(t) ==
    \/ FacadeLock(t)
    \/ FacadeWrite(t)
    \/ FacadeInc(t)
    \/ FacadeUnlock(t)

\* The frame loop: the server has created the region, and one thread calls
\* frame_delimiter!() again and again while the clock runs.
NextFrames ==
    \/ \E t \in ZoneThreads : Accessor(t) \/ FrameOps(t) \/ FacadePush(t)
    \/ Tick

SpecFrames ==
    InitCreated /\ [][NextFrames]_vars

\* The entry a named plot of another producer has left in a slot of
\* plot_data before the collector drained it.
StalePlot ==
    [time |-> 0, value |-> 0,
     name |-> [key |-> 1, size |-> 1, has_contents |-> TRUE,
               contents |-> [i \in 0..(SHARED_STRING_MAX_SIZE - 1) |->
                               IF i = 0 THEN 1 ELSE 0]]]

\* The heap tracker installed: the server has created the region and has
\* drained plot_data, whose slots hold stale entries.
InitHeap ==
    /\ now = 0
    /\ shm = Some([id |-> 1, magic |-> MAGIC,
                   protocol_version |-> PROTOCOL_VERSION,
                   size_of_usize |-> SIZE_OF_USIZE])
    /\ nregions = 1
    /\ lock = FALSE
    /\ size = 0
    /\ data = [i \in 0..(NUM_ENTRIES - 1) |-> ZeroEntry]
    /\ core_init = FALSE
    /\ ready = FALSE
    /\ mem = None
    /\ last_check = None
    /\ mutex = Nobody
    /\ start_time = None
    /\ thread_info = [t \in Threads |-> None]
    /\ copy_name = [s \in Sites |-> TRUE]
    /\ zones = [t \in Threads |-> <<>>]
    /\ nzones = 0
    /\ already_sent = [t \in Threads |-> [s \in Sites |-> FALSE]]
    /\ pc = [t \in Threads |-> "idle"]
    /\ frame = [t \in Threads |-> IdleFrame]
    /\ spin = [t \in Threads \cup {Collector} |-> 0]
    /\ cpc = "idle"
    /\ dst = <<>>
    /\ drained = RetrieveCounts(0)
    /\ frame_time = None
    /\ frame_num = 0
    /\ frame_data = InitPayload(ZeroFrame)
    /\ total_size = 0
    /\ plot_data = InitPayload(StalePlot)
    /\ string = ZeroString
    /\ arg = None
    /\ made = None
    /\ panicked = FALSE
    /\ hist = [NoHist EXCEPT !.valid_since = Some(0)]

\* Every thread allocates and frees, and calls preinit(), which attaches.
NextHeap ==
    \/ \E t \in Threads : HeapOps(t) \/ FacadePush(t)
    \/ \E t \in Threads : Accessor(t) \/ Preinit(t) \/ PreinitReturn(t)

SpecHeap ==
    InitHeap /\ [][NextHeap]_vars

\* A SharedString alone: some slot's string, whatever it holds.
InitString ==
    /\ string \in SharedStrings
    /\ arg = None
    /\ made = None
    /\ panicked = FALSE
    /\ now = 0
    /\ shm = None
    /\ nregions = 0
    /\ lock = FALSE
    /\ size = 0
    /\ data = [i \in 0..(NUM_ENTRIES - 1) |-> ZeroEntry]
    /\ core_init = FALSE
    /\ ready = FALSE
    /\ mem = None
    /\ last_check = None
    /\ mutex = Nobody
    /\ start_time = None
    /\ thread_info = [t \in Threads |-> None]
    /\ copy_name = [s \in Sites |-> TRUE]
    /\ zones = [t \in Threads |-> <<>>]
    /\ nzones = 0
    /\ already_sent = [t \in Threads |-> [s \in Sites |-> FALSE]]
    /\ pc = [t \in Threads |-> "idle"]
    /\ frame = [t \in Threads |-> IdleFrame]
    /\ spin = [t \in Threads \cup {Collector} |-> 0]
    /\ cpc = "idle"
    /\ dst = <<>>
    /\ drained = RetrieveCounts(0)
    /\ frame_time = None
    /\ frame_num = 0
    /\ frame_data = InitPayload(ZeroFrame)
    /\ total_size = 0
    /\ plot_data = InitPayload(ZeroPlot)
    /\ hist = NoHist

\* The calls on it: set with any static string, set_special with any key
\* and any bytes or none, make_str.
NextString ==
    \/ \E str \in StaticStrs, copy_contents \in BOOLEAN :
          CallSet(str, copy_contents)
    \/ \E key \in {0} \cup Addrs,
          contents \in {None} \cup {Some(str.bytes) : str \in StaticStrs} :
          CallSetSpecial(key, contents)
    \/ CallMakeStr

SpecString ==
    InitString /\ [][NextString]_vars

\* Names on one thread: it enters and leaves zones while the collector
\* drains; the clock stands still.
NextIntern ==
    \/ \E t \in ZoneThreads : Accessor(t) \/ Push(t) \/ ZoneOps(t)
    \/ Drain

SpecIntern ==
    InitNames /\ [][NextIntern]_vars

\* Names across threads: the threads enter and leave zones at call sites
\* they share; the clock stands still and nothing is drained.
NextNames ==
    \E t \in Threads : Accessor(t) \/ Push(t) \/ ZoneOps(t)

SpecNames ==
    InitNames /\ [][NextNames]_vars

(* ------------------------------ properties ----------------------------- *)
Min(a, b) ==
    IF a <= b THEN a ELSE b

Max(a, b) ==
    IF a >= b THEN a ELSE b

\* The threads inside the critical section of zone_data.lock.
InCritical ==
    {t \in Threads : pc[t] \in {"p_write", "p_inc", "p_unlock"}}
        \cup (IF cpc \in {"r_copy", "r_reset", "r_unlock"}
              THEN {Collector} ELSE {})

\* C1: a drain returns retrieved = min(n, NUM_ENTRIES) and
\* lost = max(0, n - NUM_ENTRIES), where n is the number of push calls that
\* completed since the previous drain (or since init), whatever the
\* interleaving of the producers; size is 0 when the drain releases the lock,
\* and afterwards counts the pushes completed since.
C1_DrainCounts ==
    /\ cpc \in {"r_reset", "r_unlock", "r_done"} =>
          /\ drained.retrieved = Min(hist.drain_pushed, NUM_ENTRIES)
          /\ drained.lost = Max(0, hist.drain_pushed - NUM_ENTRIES)
          /\ drained.retrieved + drained.lost = hist.drain_pushed
    /\ cpc = "r_unlock" => size = 0
    /\ cpc = "r_done" => size = hist.pushed + Cardinality(InCritical
                                    \cap {t \in Threads : pc[t] = "p_unlock"})

\* A drain of an overflowed payload has returned: retrieved = NUM_ENTRIES
\* and lost >= 1.
C1_Witness ==
    /\ cpc = "r_done"
    /\ drained.retrieved = NUM_ENTRIES
    /\ drained.lost >= 1

\* C2: push returns true iff the entry was written into a data slot: the
\* n-th push since the payload was last empty returns true and finds its
\* entry in data[n - 1] when n <= NUM_ENTRIES, and otherwise returns false
\* with its entry nowhere in data; either way it increments size by one.
C2_PushStoresIffRoom ==
    \A t \in Threads :
        pc[t] \in {"p_inc", "p_unlock"} =>
            LET n == Len(hist.won)
                e == PushEntry(t)
            IN  /\ frame[t].ret <=> n <= NUM_ENTRIES
                /\ frame[t].ret => data[n - 1] = e
                /\ ~frame[t].ret =>
                      \A i \in 0..(NUM_ENTRIES - 1) : data[i].zid # e.zid
                /\ size = IF pc[t] = "p_inc" THEN n - 1 ELSE n

\* The push after NUM_ENTRIES stored ones is about to return false, and
\* has incremented size to NUM_ENTRIES + 1.
C2_Witness ==
    \E t \in Threads :
        /\ pc[t] = "p_unlock"
        /\ ~frame[t].ret
        /\ size = NUM_ENTRIES + 1

\* C3: at most one thread, producer or collector, is between lock() and
\* unlock() of zone_data.lock, and the lock word is true exactly while one
\* is; the false word of the zeroed region means unlocked.
C3_MutualExclusion ==
    /\ Cardinality(InCritical) <= 1
    /\ lock <=> InCritical # {}

\* The collector holds the lock while a producer has spun long enough to
\* yield and the other producer has just started to spin.
C3_Witness ==
    /\ cpc = "r_copy"
    /\ \E t \in Threads : pc[t] = "p_lock" /\ Backoff(spin[t]) = "yield"
    /\ \E t \in Threads : pc[t] = "p_lock" /\ Backoff(spin[t]) = "busy"

\* The zones written so far among those that won the lock since the last
\* drain: the last winner may not have reached its write yet.
Written ==
    IF \E t \in Threads : pc[t] = "p_write"
    THEN Len(hist.won) - 1
    ELSE Len(hist.won)

\* C4: the stored entries are, slot by slot, the first NUM_ENTRIES entries
\* in the order their producers acquired the lock, at every moment (a push
\* on a full payload overwrites and reorders nothing), and a drain returns
\* them in that order at indices 0..retrieved-1.
C4_LockOrder ==
    /\ \A i \in 1..Min(Written, NUM_ENTRIES) : data[i - 1].zid = hist.won[i]
    /\ cpc \in {"r_reset", "r_unlock", "r_done"} =>
          /\ Len(dst) = drained.retrieved
          /\ \A i \in 1..Len(dst) : dst[i].zid = hist.drain_won[i]

\* A drain of an overflowed payload has returned its entries, the first of
\* which was created after the second: the order is the lock's, not the
\* callers'.
C4_Witness ==
    /\ cpc = "r_done"
    /\ drained.lost >= 1
    /\ Len(dst) = NUM_ENTRIES
    /\ dst[1].zid > dst[2].zid

\* The backoff period, in clock ticks.
RetryTicks ==
    RETRY_SECS * TicksPerSec

\* C5: after an open attempt failed in a call that read the instant f, open
\* is invoked only by a call that reads an instant >= f + 10 s, a call that
\* reads an earlier instant returns None, and a call that is turned away as
\* too early did read an instant < f + 10 s; so the instants of two
\* successive attempts are at least 10 s apart.  (Instants are the values
\* of Instant::now() the calls read under the mutex.)
C5_RetryThrottle ==
    \A t \in Threads :
        /\ pc[t] = "a_open" /\ hist.last_fail # None =>
              frame[t].t_now - Unwrap(hist.last_fail) >= RetryTicks
        /\ pc[t] = "a_ret" /\ frame[t].path = "throttled" =>
              /\ hist.last_fail # None
              /\ frame[t].t_now - Unwrap(hist.last_fail) < RetryTicks
        /\ pc[t] = "a_ret" /\ frame[t].path \in {"throttled", "failed"} =>
              frame[t].opt_mem = None

\* A call is about to invoke open at the first instant the backoff allows,
\* exactly 10 s after the failed attempt, while the other thread has just
\* been turned away.
C5_Witness ==
    \E t, u \in Threads :
        /\ pc[t] = "a_open"
        /\ hist.last_fail # None
        /\ frame[t].t_now - Unwrap(hist.last_fail) = RetryTicks
        /\ pc[u] = "a_ret"
        /\ frame[u].path = "throttled"

\* C6: once a call has returned Some(region), ready is true and the slot
\* holds that region for good, no thread is at or past the clock read of the
\* slow path (none invokes open or writes the slot again), and every call
\* that began afterwards stays off the mutex and returns that region by the
\* fast path.
C6_AttachedForGood ==
    hist.some # None =>
        /\ ready
        /\ mem = hist.some
        /\ \A t \in Threads :
              /\ pc[t] \notin {"a_now", "a_open", "a_write", "a_ready"}
              /\ frame[t].after_some =>
                    /\ pc[t] \in {"a_fast", "a_ret"}
                    /\ mutex # t
                    /\ pc[t] = "a_ret" =>
                          /\ frame[t].path = "fast"
                          /\ frame[t].opt_mem = hist.some

\* A call that began after the first Some has returned by the fast path,
\* while the other thread, which waited for the mutex meanwhile, returns
\* from the second check.
C6_Witness ==
    \E t, u \in Threads :
        /\ frame[t].after_some
        /\ pc[t] = "a_ret"
        /\ pc[u] = "a_ret"
        /\ frame[u].path = "recheck"

\* C7: once the server's region is at the path (it stays, and open would
\* succeed), threads that keep calling while the clock advances get the
\* process attached: ready becomes true (checked while the explored clock
\* has a backoff period left), and no call that reads an instant a backoff
\* period or more after the region's creation returns None.
C7_EventualAttach ==
    /\ (OpenResult(shm) = "Ok" /\ now + RetryTicks <= MaxTime) ~> ready
    /\ [](\A t \in Threads :
            pc[t] = "a_ret" /\ frame[t].opt_mem = None
                /\ hist.valid_since # None =>
                frame[t].t_now < Unwrap(hist.valid_since) + RetryTicks)

\* The process is attached after an attempt that failed.
C7_Witness ==
    /\ ready
    /\ hist.last_fail # None
    /\ \E t \in Threads : pc[t] = "a_ret" /\ frame[t].path = "opened"

\* The step of thread t is a step of a drop whose accessor call returned
\* None, after that call.
SilentStep(t) ==
    /\ pc[t] \in {"d_flag", "d_leave"}
    /\ frame[t].opt_mem = None
    /\ pc'[t] # pc[t]

\* C8: a zone dropped while the accessor returns None writes nothing to the
\* payload (lock, size and data unchanged), leaves the call sites'
\* copy_name and the thread's name_sent as they are and decrements the
\* thread's depth; and no zone dropped that way is ever found in data, also
\* once the process has attached.
C8_SilentDrop ==
    /\ [](\A i \in 0..(NUM_ENTRIES - 1) : data[i].zid \notin hist.silent)
    /\ [][\A t \in Threads :
            SilentStep(t) =>
                /\ payloadVars' = payloadVars
                /\ copy_name' = copy_name
                /\ pc[t] = "d_flag" => thread_info' = thread_info
                /\ pc[t] = "d_leave" =>
                      thread_info'[t] =
                          Some([Unwrap(thread_info[t]) EXCEPT
                                  !.depth = @ - 1])]_vars

\* A zone was dropped unattached, the process attached later, and a zone
\* dropped then is stored; the thread is back at depth 0.
C8_Witness ==
    /\ hist.silent # {}
    /\ \E i \in 0..(NUM_ENTRIES - 1) : data[i].zid # 0
    /\ \A t \in ZoneThreads :
          /\ pc[t] = "idle"
          /\ zones[t] = <<>>
          /\ \A ti \in thread_info[t] : ti.depth = 0 /\ ti.name_sent

\* The header h is the one this client accepts.
Matches(h) ==
    /\ h.magic = MAGIC
    /\ h.protocol_version = PROTOCOL_VERSION
    /\ h.size_of_usize = SIZE_OF_USIZE

\* C9: open reports the first check that fails, in the order magic,
\* protocol version, pointer width; a call whose open failed has no handle
\* and returns None; ready is set and a handle exists only for the file
\* whose header matches, and while the file at the path does not match the
\* process is not attached and nothing has locked, counted or written in
\* its payload.
C9_OpenHandshake ==
    /\ \A t \in Threads :
          frame[t].mem_result # Nobody =>
              LET f == frame[t].opened
                  r == frame[t].mem_result
              IN  /\ f = None => r = "ShmemError"
                  /\ f # None =>
                        LET h == Unwrap(f)
                        IN  /\ h.magic # MAGIC => r = "BadMagic"
                            /\ h.magic = MAGIC
                                   /\ h.protocol_version # PROTOCOL_VERSION =>
                                   r = "ProtocolMismatch"
                            /\ h.magic = MAGIC
                                   /\ h.protocol_version = PROTOCOL_VERSION
                                   /\ h.size_of_usize # SIZE_OF_USIZE =>
                                   r = "PlatformMismatch"
                            /\ Matches(h) <=> r = "Ok"
                  /\ r # "Ok" =>
                        frame[t].mapped = None /\ frame[t].opt_mem = None
    /\ ready => mem # None
    /\ \A t \in Threads :
          \A id \in mem \cup frame[t].mapped \cup frame[t].opt_mem :
              /\ shm # None
              /\ Unwrap(shm).id = id
              /\ Matches(Unwrap(shm))
    /\ (shm = None \/ \E h \in shm : ~Matches(h)) =>
          /\ ~ready
          /\ ~lock
          /\ size = 0
          /\ \A i \in 0..(NUM_ENTRIES - 1) : data[i] = ZeroEntry
          /\ \A t \in Threads :
                pc[t] \notin {"p_lock", "p_write", "p_inc", "p_unlock"}

\* A call returns from an open that reported BadMagic for a file whose
\* three header fields are all wrong.
C9_Witness ==
    \E t \in Threads :
        /\ pc[t] = "a_ret"
        /\ frame[t].mem_result = "BadMagic"
        /\ \E h \in frame[t].opened :
              /\ h.protocol_version # PROTOCOL_VERSION
              /\ h.size_of_usize # SIZE_OF_USIZE

\* C10: the depth counter of a thread equals the number of its live zones
\* in every state (so a matched enter and exit restore it), and the depth a
\* zone holds, and the depth of its ZoneData once stored, is the number of
\* zones of its thread that were live when it was entered.
C10_Depth ==
    /\ \A t \in Threads :
          /\ thread_info[t] = None => zones[t] = <<>>
          /\ \A ti \in thread_info[t] : ti.depth = Len(zones[t])
          /\ \A k \in 1..Len(zones[t]) :
                zones[t][k].depth = hist.outer[zones[t][k].zid]
    /\ \A i \in 0..(NUM_ENTRIES - 1) :
          data[i].zid # 0 => data[i].depth = hist.outer[data[i].zid]

\* Enter A, enter B inside A, exit B, exit A: the stored depths are 1 and 0,
\* and the thread is back at depth 0.
C10_Witness ==
    /\ size = 2
    /\ data[0].depth = 1
    /\ data[1].depth = 0
    /\ \A t \in ZoneThreads :
          /\ pc[t] = "idle"
          /\ zones[t] = <<>>
          /\ \A ti \in thread_info[t] : ti.depth = 0

\* The ZoneData of thread t that the zones have stored so far, as indices
\* into the history.
StoredOf(t) ==
    {i \in 1..Len(hist.stored) : hist.stored[i].thread = t}

\* C11: the name_sent flag of a thread becomes true only in the exit of a
\* zone whose push returned true (the ZoneData is stored) and whose ZoneData
\* carried the thread name; a push dropped for capacity or skipped as
\* unattached leaves it false.  So a thread with name_sent set, and a thread
\* any of whose zones was stored, has a stored ZoneData that carries the
\* thread name.
C11_ThreadNameDelivery ==
    /\ [](\A t \in Threads :
            /\ (\E ti \in thread_info[t] : ti.name_sent) =>
                  \E i \in StoredOf(t) : hist.stored[i].thread_has
            /\ StoredOf(t) # {} =>
                  \E i \in StoredOf(t) : hist.stored[i].thread_has)
    /\ [][\A t \in Threads :
            (/\ \E ti \in thread_info'[t] : ti.name_sent
             /\ \A ti \in thread_info[t] : ~ti.name_sent) =>
                /\ pc[t] = "d_leave"
                /\ frame[t].ok
                /\ Cur(t).thread_name
                /\ \E i \in StoredOf(t) :
                      /\ hist.stored[i].zid = Cur(t).zid
                      /\ hist.stored[i].thread_has]_vars

\* The thread's first zone carried the name and was dropped for capacity,
\* its second zone carried the name again and was stored after a drain, and
\* name_sent is set.
C11_Witness ==
    \E t \in ZoneThreads :
        /\ \E ti \in thread_info[t] : ti.name_sent
        /\ Len(hist.stored) = 1
        /\ hist.stored[1].zid = 2
        /\ hist.stored[1].thread = t
        /\ hist.stored[1].thread_has

\* The ZoneData of call site s that the zones have stored so far, as
\* indices into the history.
StoredAt(s) ==
    {i \in 1..Len(hist.stored) : hist.stored[i].uid = s}

\* C12: with threads that end zones at one call site concurrently, the
\* site's copy_name is cleared only by a thread whose push returned true for
\* a ZoneData of that site, which is stored; so a site whose copy_name is
\* false, and a site any of whose ZoneData was stored, has a stored ZoneData
\* with name.has_contents = true (more than one may have it).
C12_ZoneNameDelivery ==
    /\ [](\A s \in Sites :
            ~copy_name[s] \/ StoredAt(s) # {} =>
                \E i \in StoredAt(s) : hist.stored[i].name_has)
    /\ [][\A s \in Sites :
            copy_name[s] /\ ~copy_name'[s] =>
                \E t \in Threads :
                    /\ pc[t] = "d_flag"
                    /\ pc'[t] = "d_leave"
                    /\ frame[t].ok
                    /\ Cur(t).info = s
                    /\ \E i \in StoredAt(s) :
                          hist.stored[i].zid = Cur(t).zid]_vars

\* Two threads ended zones at one call site, both ZoneData are stored and
\* both carry the zone name: the second thread read copy_name before the
\* first cleared it.
C12_Witness ==
    \E s \in Sites :
        /\ ~copy_name[s]
        /\ Len(hist.stored) = 2
        /\ hist.stored[1].uid = s
        /\ hist.stored[2].uid = s
        /\ hist.stored[1].thread # hist.stored[2].thread
        /\ hist.stored[1].name_has
        /\ hist.stored[2].name_has

\* The i-th stored ZoneData is the first stored one among those in I.
FirstOf(i, I) ==
    \A j \in I : i <= j

\* C13 as claimed: of the ZoneData a single thread has stored, all at one
\* call site, exactly the first carries the zone name and the thread name,
\* whatever the nesting of the zones.
C13_FirstOnly ==
    \A t \in ZoneThreads, s \in Sites :
        StoredOf(t) = StoredAt(s) =>
            \A i \in StoredAt(s) :
                /\ hist.stored[i].name_has <=> FirstOf(i, StoredAt(s))
                /\ hist.stored[i].thread_has <=> FirstOf(i, StoredAt(s))

\* C13, amended: of the ZoneData a single thread has stored at one call
\* site, exactly the first carries the zone name; of all it has stored, the
\* first carries the thread name, and a later one carries it exactly when its
\* zone was entered before the exit that set name_sent (a zone that overlaps
\* the first stored one); every other one carries neither, under the same
\* uid and thread key.
C13_Interning ==
    \A t \in ZoneThreads :
        /\ \A s \in Sites :
              \A i \in StoredAt(s) \cap StoredOf(t) :
                  hist.stored[i].name_has <=>
                      FirstOf(i, StoredAt(s) \cap StoredOf(t))
        /\ \A i \in StoredOf(t) :
              /\ FirstOf(i, StoredOf(t)) => hist.stored[i].thread_has
              /\ hist.stored[i].thread_has <=>
                    \A n \in hist.named[t] : hist.stored[i].zid <= n

\* The thread nested two zones at one call site: the inner one is stored
\* first with both names, the outer one, entered before name_sent was set,
\* is stored without the zone name and with the thread name again.
C13_Witness ==
    \E t \in ZoneThreads, s \in Sites :
        /\ Len(hist.stored) = 2
        /\ StoredAt(s) = {1, 2}
        /\ StoredOf(t) = {1, 2}
        /\ hist.stored[1].zid = 2
        /\ hist.stored[1].name_has /\ hist.stored[1].thread_has
        /\ ~hist.stored[2].name_has /\ hist.stored[2].thread_has

\* C14: every ZoneData a zone's destruction has stored has end (time since the
\* process start_time) at least duration (time since the zone's own start),
\* both in clock ticks and both nonnegative, whether the zone was entered
\* before or after the first accessor call captured start_time.
C14_EndCoversDuration ==
    \A i \in 1..Len(hist.stored) :
        /\ hist.stored[i].duration >= 0
        /\ hist.stored[i].end >= hist.stored[i].duration

\* C17: after string.set(s, true), for a string s within the capacity,
\* make_str returns exactly the bytes of s and the key is the address of s;
\* after string.set(s, false), make_str returns None and the key is the
\* address of s.
C17_RoundTrip ==
    \A a \in arg, m \in made :
        a.op = "set" =>
            /\ string.key = a.key
            /\ m = IF a.copy THEN a.bytes ELSE None

\* A string of exactly the capacity has been set over a slot that held other
\* bytes under another key, and decoded.
C17_Witness ==
    \E a \in arg :
        /\ a.op = "set" /\ a.copy
        /\ Len(Unwrap(a.bytes)) = SHARED_STRING_MAX_SIZE
        /\ a.key = 2
        /\ made = Some(a.bytes)
        /\ string.contents[0] # string.contents[1]

\* The bytes of the last call of set or set_special that had bytes to copy.
Copied(a) ==
    IF a.op = "set" \/ a.copy THEN a.bytes ELSE None

\* C20: set and set_special accept a string of exactly the capacity (its
\* size is stored and has_contents is true) and fail their assertion for a
\* longer one, and then no byte is copied into contents; nothing shorter
\* fails.
C20_CapacityBoundary ==
    [][made' = None =>
          \A a \in arg' :
              /\ \A b \in Copied(a) :
                    /\ Len(b) = SHARED_STRING_MAX_SIZE /\ a.copy =>
                          /\ ~panicked'
                          /\ string'.size = SHARED_STRING_MAX_SIZE
                          /\ string'.has_contents
                    /\ Len(b) > SHARED_STRING_MAX_SIZE =>
                          /\ panicked'
                          /\ string'.contents = string.contents
                          /\ string'.size = string.size
                          /\ string'.has_contents = string.has_contents
                    /\ panicked' => Len(b) > SHARED_STRING_MAX_SIZE
              /\ Copied(a) = None => ~panicked']_vars

\* Both calls have happened at the boundary: set_special has stored a string
\* of exactly the capacity, and set has then refused a longer one.
C20_Witness ==
    \E a \in arg :
        /\ a.op = "set"
        /\ Len(Unwrap(a.bytes)) = SHARED_STRING_MAX_SIZE + 1
        /\ panicked
        /\ string.key = 0
        /\ string.size = SHARED_STRING_MAX_SIZE
        /\ string.has_contents
        /\ \A i \in DOMAIN string.contents : string.contents[i] # 0

\* The thread of the frame loop is between two calls of frame_delimiter!().
BetweenFrames ==
    \A t \in ZoneThreads : pc[t] = "idle"

\* C15: attached and with room in frame_data, the first call of
\* frame_delimiter!() stores no FrameData and each later call stores one,
\* whose duration is the interval since the call before: after k calls there
\* are k - 1 entries, numbered 1 to k - 1 in order.
C15_FrameDelimiter ==
    BetweenFrames /\ Len(hist.calls) \in 1..NUM_ENTRIES =>
        /\ Len(hist.frames) = Len(hist.calls) - 1
        /\ \A i \in 1..Len(hist.frames) :
              /\ hist.frames[i].number = i
              /\ hist.frames[i].duration = hist.calls[i + 1] - hist.calls[i]

\* Thread t is inside report_heap.
Reporting(t) ==
    /\ frame[t].caller = "heap"
    /\ pc[t] # "idle"

\* The threads whose report has found the region and has not yet counted in
\* plot_data.size.
ToPush ==
    {t \in Threads : Reporting(t) /\ pc[t] \in {"q_lock", "q_write", "q_inc"}}

\* The threads inside the critical section of plot_data.lock.
InPlotCritical ==
    {t \in Threads :
        Reporting(t) /\ pc[t] \in {"q_write", "q_inc", "q_unlock"}}

\* C16: a heap report reaches the region only through the read-only
\* accessor, which neither takes the attachment mutex nor calls open nor
\* writes CORE; when ready is false the sample is dropped and nothing but
\* the reporter's own locals changes; when ready is true the report makes
\* exactly one push to plot_data, under its SpinLock, of an entry with
\* name.key = 0 and has_contents = false.
C16_HeapReport ==
    /\ [](/\ plot_data.size + Cardinality(ToPush) = hist.heap_some
          /\ hist.heap_some + hist.heap_none
               + Cardinality({t \in Threads : Reporting(t)
                                 /\ pc[t] \in {"h_ro", "h_got"}})
               = hist.reports
          /\ Cardinality(InPlotCritical) <= 1
          /\ InPlotCritical # {} => plot_data.lock
          /\ \A i \in 0..(Min(plot_data.size, NUM_ENTRIES) - 1) :
                /\ plot_data.data[i].name.key = 0
                /\ ~plot_data.data[i].name.has_contents)
    /\ [][\A t \in Threads :
            Reporting(t) /\ <<pc[t], frame[t], spin[t]>>'
                              # <<pc[t], frame[t], spin[t]>> =>
                /\ UNCHANGED <<coreVars, regionVars, payloadVars, frame_data>>
                /\ hist'.opens = hist.opens
                /\ pc[t] = "h_ro" =>
                      /\ (frame'[t].opt_mem # None) <=> ready
                      /\ UNCHANGED <<plot_data, total_size>>
                /\ pc[t] = "h_got" /\ frame[t].opt_mem = None =>
                      /\ pc'[t] = "idle"
                      /\ UNCHANGED <<plot_data, total_size>>]_vars

\* One report was dropped before the process attached and two were pushed
\* after: both entries carry key 0 and no contents over the stale bytes of
\* their slots, with the total size of their moment.
C16_Witness ==
    /\ hist.heap_none = 1
    /\ plot_data.size = 2
    /\ ~plot_data.lock
    /\ \A i \in 0..1 :
          /\ plot_data.data[i].name.key = 0
          /\ ~plot_data.data[i].name.has_contents
          /\ plot_data.data[i].name.contents[0] = 1
    /\ plot_data.data[0].value # plot_data.data[1].value

\* The retrieve in progress follows another with no push between them, and
\* that one too found no push to collect.
SecondQuiet ==
    /\ hist.drain_won = <<>>
    /\ \E p \in hist.prev : p.quiet

\* C18: of two consecutive drains of an empty payload with no push between
\* them, each returns (retrieved, lost) = (0, 0) and leaves size = 0 and the
\* lock released.
C18_DrainIdempotent ==
    /\ [](SecondQuiet /\ cpc \in {"r_reset", "r_unlock", "r_done"} =>
             /\ drained = [retrieved |-> 0, lost |-> 0]
             /\ \A p \in hist.prev : p.counts = [retrieved |-> 0, lost |-> 0]
             /\ cpc = "r_unlock" => size = 0)
    /\ [][cpc = "r_unlock" /\ cpc' = "r_done" => ~lock' /\ size' = 0]_vars

\* After a push and the drain that collected it, the collector has drained
\* twice more with no push between: the second of these has returned.
C18_Witness ==
    /\ cpc = "r_done"
    /\ SecondQuiet
    /\ \E s \in Sites : already_sent["t1"][s]
    /\ pc["t1"] = "idle"
    /\ drained = [retrieved |-> 0, lost |-> 0]
    /\ size = 0
    /\ ~lock

\* C19: start_time is written once, by the first call of the accessor on any
\* thread, with the instant of that call; it never changes afterwards, and
\* every call, whichever path it takes, returns it.
C19_StartTimeOnce ==
    /\ [](/\ core_init <=> start_time # None
          /\ \A t \in Threads :
                pc[t] = "a_ret" =>
                    /\ start_time # None
                    /\ frame[t].start_time = start_time)
    /\ [][/\ start_time # None => start_time' = start_time
          /\ start_time = None /\ start_time' # None =>
                /\ start_time' = Some(now)
                /\ \E t \in Threads : pc[t] = "a_once" /\ pc'[t] = "a_fast"
                /\ \A t \in Threads : pc[t] \in {"idle", "a_once"}]_vars

\* Long after the first call, one thread's call returns attached and the
\* other's returns without the region: both return the instant of the
\* first call.
C19_Witness ==
    /\ now > 0
    /\ start_time = Some(0)
    /\ pc["t1"] = "a_ret" /\ pc["t2"] = "a_ret"
    /\ frame["t1"].opt_mem # None
    /\ frame["t2"].opt_mem = None
    /\ frame["t1"].start_time = Some(0)
    /\ frame["t2"].start_time = Some(0)

\* The threads between the call of SharedMemory::open and the end of what
\* follows a successful one.
Opening ==
    {t \in Threads : pc[t] \in {"a_open", "a_write", "a_ready"}}

\* C21: open is called only by a thread that holds the last_check mutex and
\* has read ready = false under it, so at most one open is in progress; a
\* thread that waited for the mutex while another attached returns Some
\* without calling open; CORE.mem is written at most once; last_check is
\* written only on a failed open.
C21_DoubleChecked ==
    /\ [](/\ Cardinality(Opening) <= 1
          /\ \A t \in Opening : mutex = t /\ (pc[t] # "a_ready" => ~ready))
    /\ [][/\ hist'.opens # hist.opens =>
                \E t \in Threads :
                    /\ pc[t] = "a_open" /\ mutex = t /\ ~ready
                    /\ hist'.opens = hist.opens + 1
          /\ \A t \in Threads :
                pc[t] = "a_recheck" /\ pc'[t] # "a_recheck" /\ ready =>
                    /\ pc'[t] = "a_ret"
                    /\ frame'[t].opt_mem = mem /\ mem # None
                    /\ hist'.opens = hist.opens
                    /\ mutex' = Nobody
          /\ mem # None => mem' = mem
          /\ last_check' # last_check =>
                \E t \in Threads :
                    /\ pc[t] = "a_open" /\ OpenResult(shm) # "Ok"
                    /\ last_check' = Some(frame[t].t_now)]_vars

\* Both threads found ready false on the fast path; one opened the region,
\* the other waited for the mutex and returned the region from its second
\* look at ready: one call of open in all.
C21_Witness ==
    \E t, u \in Threads :
        /\ pc[t] = "a_ret" /\ frame[t].path = "opened"
        /\ pc[u] = "a_ret" /\ frame[u].path = "recheck"
        /\ frame[u].opt_mem = frame[t].opt_mem
        /\ frame[u].opt_mem # None
        /\ hist.opens = 1

\* C22: in the order in which the stored ZoneData won the lock, the earliest
\* one of every zone-name key (call site) and the earliest one of every
\* thread-name key (thread) has has_contents = true, whatever the
\* interleaving of the threads and the nesting of their zones.
C22_ContentsFirst ==
    \A i \in 1..Len(hist.stored) :
        /\ FirstOf(i, StoredAt(hist.stored[i].uid)) => hist.stored[i].name_has
        /\ FirstOf(i, StoredOf(hist.stored[i].thread)) =>
              hist.stored[i].thread_has

\* Two threads ended zones at one call site one after the other: the
\* second ZoneData refers to the zone name the first one carried, and
\* carries the name of its own thread, seen for the first time.
C22_Witness ==
    /\ Len(hist.stored) = 2
    /\ hist.stored[1].uid = hist.stored[2].uid
    /\ hist.stored[1].thread # hist.stored[2].thread
    /\ hist.stored[1].name_has /\ hist.stored[1].thread_has
    /\ ~hist.stored[2].name_has /\ hist.stored[2].thread_has

\* Every push and every retrieve has returned.
AllReturned ==
    /\ \A t \in Threads : pc[t] = "idle"
    /\ cpc = "idle"

\* C23: with finitely many pushes and retrieves and a fair scheduler, every
\* operation returns and the lock is free once all have; none returns
\* holding the lock, and the lock is never held with no thread between its
\* lock() and its unlock().
C23_LockProgress ==
    /\ \A t \in Threads : (pc[t] # "idle") ~> (pc[t] = "idle")
    /\ (cpc # "idle") ~> (cpc = "idle")
    /\ <>[](AllReturned /\ ~lock)
    /\ [](AllReturned => ~lock)
    /\ [](lock => InCritical # {})
    /\ [][/\ \A t \in Threads :
                pc[t] = "p_unlock" /\ pc'[t] # "p_unlock" => ~lock'
          /\ cpc = "r_unlock" /\ cpc' # "r_unlock" => ~lock']_vars

\* Every push and every retrieve the bounds allow has been made and has
\* returned; the last push found the payload full, and the lock is free.
C23_Witness ==
    /\ AllReturned
    /\ nzones = MaxPushes
    /\ hist.drains = MaxDrains
    /\ size > NUM_ENTRIES
    /\ ~lock

====
